---- MODULE Spec2Model ----
(***************************************************************************)
(* A model of the ai-agent-guardrails guard pipeline: the simple policy    *)
(* (classify / decide), the request-scoped GuardContext, the wrapped       *)
(* execute handler of guardTools with its budget checks, policy block,     *)
(* timeout race and audit emission, and the synthesized approval probe.    *)
(*                                                                         *)
(* The wrapped execute is an async function: it runs without interruption  *)
(* from one await to the next.  Each such run-to-completion segment is one *)
(* action; segments of different in-flight invocations interleave freely.  *)
(***************************************************************************)
EXTENDS Integers, Sequences, FiniteSets, TLC

VARIABLES
    ctx,      \* the shared GuardContext
    now,      \* the wall clock (Date.now()), in model milliseconds
    opts,     \* GuardToolsOptions: policy options, timeoutMs, audit sink behaviour
    inv,      \* per invocation of a wrapped execute: its position and locals
    log,      \* the events handed to opts.audit.emit (a sink is configured), in order
    probe,    \* the last call of a synthesized needsApproval predicate
    pq,       \* the last direct call of the simple policy (classify / decide)
    host,     \* the host and its tools: the inputs passed, what the tools produce
    toolset,  \* a toolset handed to guardTools, and the toolset it returned
    mem,      \* an InMemoryAuditSink and the last answer of its getters
    file,     \* a FileAuditSink, its write stream and the file behind it
    rq,       \* the last direct call of a redactor
    page      \* the demo page: an approval card, the decision taken on it

\* The guard pipeline's variables, and those of the library's other parts
pipeVars == <<ctx, now, opts, inv, log, probe, pq, host>>
libVars == <<toolset, mem, file, rq, page>>
vars == <<ctx, now, opts, inv, log, probe, pq, host, toolset, mem, file, rq, page>>

----------------------------------------------------------------------------
(* Bounds of the model *)

MaxInv == 2          \* invocations of wrapped execute per request
MaxTime == 2         \* the clock runs from 0 to MaxTime
MaxCalls == 1        \* maxToolCalls ranges over 1..MaxCalls

----------------------------------------------------------------------------
(* Strings as sequences of one-character strings *)

UpperChars == <<"A","B","C","D","E","F","G","H","I","J","K","L","M",
                "N","O","P","Q","R","S","T","U","V","W","X","Y","Z">>
LowerChars == <<"a","b","c","d","e","f","g","h","i","j","k","l","m",
                "n","o","p","q","r","s","t","u","v","w","x","y","z">>

\* String.prototype.toLowerCase
toLowerCase(s) ==
    [k \in 1..Len(s) |->
        IF \E u \in 1..Len(UpperChars) : UpperChars[u] = s[k]
        THEN LowerChars[CHOOSE u \in 1..Len(UpperChars) : UpperChars[u] = s[k]]
        ELSE s[k]]

\* String.prototype.includes: sub occurs in s as a contiguous substring
includes(s, sub) ==
    \E k \in 0..(Len(s) - Len(sub)) : SubSeq(s, k + 1, k + Len(sub)) = sub

\* The tools of the demo server
search_docs == <<"s","e","a","r","c","h","_","d","o","c","s">>
create_issue == <<"c","r","e","a","t","e","_","i","s","s","u","e">>
delete_resource == <<"d","e","l","e","t","e","_","r","e","s","o","u","r","c","e">>
send_email == <<"s","e","n","d","_","e","m","a","i","l">>

\* The tokens of the default classification heuristic
AdminTokens ==
    {<<"d","e","l","e","t","e">>, <<"r","e","m","o","v","e">>,
     <<"d","e","s","t","r","o","y">>, <<"d","r","o","p">>}
WriteTokens ==
    {<<"c","r","e","a","t","e">>, <<"w","r","i","t","e">>, <<"u","p","d","a","t","e">>,
     <<"m","o","d","i","f","y">>, <<"i","n","s","e","r","t">>, <<"s","e","n","d">>,
     <<"p","o","s","t">>}

----------------------------------------------------------------------------
(* The simple policy: createSimplePolicy(options) *)

Risk == {"read", "write", "admin"}

\* An optional array option: absent (undefined) or an array of names
Absent == [defined |-> FALSE, items |-> {}]
Given(S) == [defined |-> TRUE, items |-> S]

\* A slip: the write tokens are looked for first
classify_writeFirst(toolName) ==
    LET lowered == toLowerCase(toolName) IN
    IF \E t \in WriteTokens : includes(lowered, t)
    THEN [risk |-> "write", reason |-> "write operation"]
    ELSE IF \E t \in AdminTokens : includes(lowered, t)
    THEN [risk |-> "admin", reason |-> "destructive operation"]
    ELSE [risk |-> "read", reason |-> "read-only operation"]

\* A slip: the name is not lowered
classify_caseSensitive(toolName) ==
    IF \E t \in AdminTokens : includes(toolName, t)
    THEN [risk |-> "admin", reason |-> "destructive operation"]
    ELSE IF \E t \in WriteTokens : includes(toolName, t)
    THEN [risk |-> "write", reason |-> "write operation"]
    ELSE [risk |-> "read", reason |-> "read-only operation"]

classify(toolName) ==
    LET lowered == toLowerCase(toolName) IN
    IF \E t \in AdminTokens : includes(lowered, t)
    THEN [risk |-> "admin", reason |-> "destructive operation"]
    ELSE IF \E t \in WriteTokens : includes(lowered, t)
    THEN [risk |-> "write", reason |-> "write operation"]
    ELSE [risk |-> "read", reason |-> "read-only operation"]

\* A GuardDecision.  {allow: true} has neither needsApproval nor reason: they are
\* modelled as FALSE (Boolean(undefined)) and the empty tuple.
Allow == [allow |-> TRUE, needsApproval |-> FALSE, reason |-> <<>>]
Deny(reason) == [allow |-> FALSE, needsApproval |-> FALSE, reason |-> reason]
AllowNeedsApproval(reason) == [allow |-> TRUE, needsApproval |-> TRUE, reason |-> reason]

\* denylist && denylist.includes(toolName)
inDenylist(popts, toolName) ==
    popts.denylist.defined /\ toolName \in popts.denylist.items

\* A slip: the negation is dropped, the allowlist acts as a second denylist
notInAllowlist_negationDropped(popts, toolName) ==
    popts.allowlist.defined /\ toolName \in popts.allowlist.items

\* allowlist && !allowlist.includes(toolName): an empty array is truthy
notInAllowlist(popts, toolName) ==
    popts.allowlist.defined /\ toolName \notin popts.allowlist.items

\* A slip: no default, an absent option asks approval for nothing
approvalRisks_noDefault(popts) == popts.requireApprovalForRisk.items

\* requireApprovalForRisk = ['write', 'admin'] unless the option is given
approvalRisks(popts) ==
    IF popts.requireApprovalForRisk.defined
    THEN popts.requireApprovalForRisk.items
    ELSE {"write", "admin"}

\* A slip: the approval rule is consulted before the deny rules
decide_approvalFirst(popts, toolName, risk) ==
    IF risk \in approvalRisks(popts)
    THEN AllowNeedsApproval(<<risk, " operation requires approval">>)
    ELSE IF inDenylist(popts, toolName)
    THEN Deny(<<"Tool '", toolName, "' is in denylist">>)
    ELSE IF notInAllowlist(popts, toolName)
    THEN Deny(<<"Tool '", toolName, "' is not in allowlist">>)
    ELSE Allow

decide(popts, toolName, risk) ==
    IF inDenylist(popts, toolName)
    THEN Deny(<<"Tool '", toolName, "' is in denylist">>)
    ELSE IF notInAllowlist(popts, toolName)
    THEN Deny(<<"Tool '", toolName, "' is not in allowlist">>)
    ELSE IF risk \in approvalRisks(popts)
    THEN AllowNeedsApproval(<<risk, " operation requires approval">>)
    ELSE Allow

----------------------------------------------------------------------------
(* Values: tool inputs and results *)

\* A JavaScript value: a string, an array of values, an object (its entries
\* in Object.entries order), or an object that holds a reference to itself
StringValue(s) == [t |-> "string", v |-> s]
ArrayValue(items) == [t |-> "array", v |-> items]
ObjectValue(entries) == [t |-> "object", v |-> entries]
Entry(key, val) == [key |-> key, val |-> val]
CyclicValue == [t |-> "cyclic", v |-> <<>>]

key_query == <<"q","u","e","r","y">>
key_password == <<"p","a","s","s","w","o","r","d">>
key_Password == <<"P","a","s","s","w","o","r","d">>
key_user == <<"u","s","e","r">>

\* An input without secrets, an input with a secret at the top level, an input
\* with a secret inside an array, an input that refers to itself
PlainInput == ObjectValue(<<Entry(key_query, StringValue("docs"))>>)
SecretInput ==
    ObjectValue(<<Entry(key_query, StringValue("docs")),
                  Entry(key_Password, StringValue("hunter2"))>>)
NestedSecretInput ==
    ObjectValue(<<Entry(key_user,
                    ArrayValue(<<ObjectValue(<<Entry(key_password, StringValue("hunter2"))>>)>>))>>)

\* The results of the tools: a plain one, one with a secret field, one that
\* refers to itself
PlainResult == ObjectValue(<<Entry(key_query, StringValue("found"))>>)
SecretResult == ObjectValue(<<Entry(key_password, StringValue("hunter2"))>>)

\* A slip: the field names are kept as given
fieldSet_asGiven(fieldsToRedact) == fieldsToRedact

\* new Set(fieldsToRedact.map(f => f.toLowerCase()))
fieldSet(fieldsToRedact) == {toLowerCase(f) : f \in fieldsToRedact}

\* createFieldRedactor(fields).redact(value)
RECURSIVE fieldRedact(_, _)
fieldRedact(fields, value) ==
    CASE value.t = "array" ->
           ArrayValue([k \in 1..Len(value.v) |-> fieldRedact(fields, value.v[k])])
      [] value.t = "object" ->
           ObjectValue([k \in 1..Len(value.v) |->
               IF toLowerCase(value.v[k].key) \in fieldSet(fields)
               THEN Entry(value.v[k].key, StringValue("[REDACTED]"))
               ELSE Entry(value.v[k].key, fieldRedact(fields, value.v[k].val))])
      [] OTHER -> value

\* The recursion of redact has no guard against cycles: on a value that refers
\* to itself, outside a redacted field, it ends in a RangeError (stack overflow)
RECURSIVE fieldRedactOverflows(_, _)
fieldRedactOverflows(fields, value) ==
    CASE value.t = "cyclic" -> TRUE
      [] value.t = "array" ->
           \E k \in 1..Len(value.v) : fieldRedactOverflows(fields, value.v[k])
      [] value.t = "object" ->
           \E k \in 1..Len(value.v) :
               /\ toLowerCase(value.v[k].key) \notin fieldSet(fields)
               /\ fieldRedactOverflows(fields, value.v[k].val)
      [] OTHER -> FALSE

\* opts.redactor: absent, or Given(fields) for createFieldRedactor(fields)
NoRedactor == Absent

\* A slip: an error raised by the redactor is swallowed
redactThrows_swallowed(redactor, value) == FALSE

\* redactor.redact(value) raises an error
redactThrows(redactor, value) ==
    redactor.defined /\ fieldRedactOverflows(redactor.items, value)

\* A slip: the raw value goes to the sink
redacted_raw(redactor, value) == value

\* redactor ? redactor.redact(value) : value
redacted(redactor, value) ==
    IF redactor.defined THEN fieldRedact(redactor.items, value) ELSE value

----------------------------------------------------------------------------
(* Errors *)

\* error.message, for the error values that have one
message(err, ms) ==
    CASE err = "Timeout" -> <<"O","p","e","r","a","t","i","o","n"," ","t","i","m","e","d"," ","o","u","t"," ","a","f","t","e","r"," ">> \o <<ToString(ms), "m", "s">>
      [] err = "ToolError" -> <<"D","e","l","e","t","i","o","n"," ","n","o","t"," ","c","o","n","f","i","r","m","e","d">>
      [] err = "ToolErrorTimedOut" -> <<"u","p","s","t","r","e","a","m"," ","r","e","q","u","e","s","t"," ","t","i","m","e","d"," ","o","u","t">>
      [] err = "SinkError" -> <<"a","u","d","i","t"," ","s","i","n","k"," ","f","a","i","l","u","r","e">>
      [] err = "RangeError" -> <<"M","a","x","i","m","u","m"," ","c","a","l","l"," ","s","t","a","c","k"," ","s","i","z","e"," ","e","x","c","e","e","d","e","d">>
      [] err = "TypeError" -> <<"C","a","n","n","o","t"," ","r","e","a","d"," ","p","r","o","p","e","r","t","i","e","s"," ","o","f"," ","u","n","d","e","f","i","n","e","d">>

----------------------------------------------------------------------------
(* The guard pipeline: guardTools(tools, opts) *)

Invs == 1..MaxInv

\* The tools of the wrapped toolset that have an execute
ToolNames == {search_docs, create_issue, delete_resource}

\* The policies the pipeline is run with: the demo route's policy, and an
\* allowlist policy that asks approval for admin only
DemoPolicy ==
    [denylist |-> Given({delete_resource}), allowlist |-> Absent,
     requireApprovalForRisk |-> Given({"write", "admin"})]
AllowlistPolicy ==
    [denylist |-> Absent, allowlist |-> Given({search_docs, create_issue}),
     requireApprovalForRisk |-> Given({"admin"})]
PipelinePolicies == {DemoPolicy, AllowlistPolicy}

\* ctx.maxDurationMs: 0 stands for an absent (falsy) limit
DurationChoices == {0, 1}
\* An invocation that has not been made yet
IdleInv ==
    [pc |-> "idle", toolName |-> <<>>, n |-> 0,
     cls |-> [st |-> "none", risk |-> "read", reason |-> ""],
     dec |-> [st |-> "none", decision |-> Allow],
     t0 |-> 0, under |-> "notcalled", wt |-> "none", outcome |-> "pending",
     input |-> <<>>, arg |-> <<>>, res |-> <<>>, ret |-> <<>>]

\* The limits of createDefaultContext()
DefaultMaxToolCalls == 8
DefaultMaxDurationMs == 60000

\* createDefaultContext(), with the limits the host then sets on it
createDefaultContext(maxToolCalls, maxDurationMs) ==
    [requestId |-> "req", toolCalls |-> 0, maxToolCalls |-> maxToolCalls,
     startTime |-> 0, maxDurationMs |-> maxDurationMs]

\* A slip: the call is not counted
nextToolCalls_notCounted(toolCalls) == toolCalls

\* A slip: only the first call of a context is counted
nextToolCalls_onlyFirst(toolCalls) == IF toolCalls = 0 THEN 1 ELSE toolCalls

\* ctx.toolCalls += 1
nextToolCalls(toolCalls) == toolCalls + 1

\* A slip: the comparison lets one call too many through
callBudgetExceeded_offByOne(toolCalls, maxToolCalls) == toolCalls > maxToolCalls + 1

\* A slip: the call-count check is left out
callBudgetExceeded_unchecked(toolCalls, maxToolCalls) == FALSE

\* A slip: equality instead of greater-than
callBudgetExceeded_exactlyNext(toolCalls, maxToolCalls) == toolCalls = maxToolCalls + 1

\* ctx.toolCalls > ctx.maxToolCalls, evaluated right after the increment
callBudgetExceeded(toolCalls, maxToolCalls) == toolCalls > maxToolCalls

\* A slip: the comparison is not strict
timeBudgetExceeded_nonStrict(c, t) ==
    c.maxDurationMs # 0 /\ t - c.startTime >= c.maxDurationMs

\* A slip: the comparison lets one more millisecond through
timeBudgetExceeded_offByOne(c, t) ==
    c.maxDurationMs # 0 /\ t - c.startTime > c.maxDurationMs + 1

\* ctx.maxDurationMs && Date.now() - ctx.startTime > ctx.maxDurationMs
timeBudgetExceeded(c, t) ==
    c.maxDurationMs # 0 /\ t - c.startTime > c.maxDurationMs

\* audit.emit(event) throws for this event
emitThrows(type) == type \in opts.throwOn

\* The invocation settles: the async function returns or throws
Settle(r, outcome) == [r EXCEPT !.pc = "done", !.outcome = outcome]

\* The audit events.  inv is not a field of the event: it names the invocation
\* that emitted it.  The timestamp field (Date.now() at emission) is left out:
\* the log keeps the emission order, and durationMs keeps the elapsed time.
Attempted(i, t, input) ==
    [type |-> "tool_call_attempted", toolName |-> t, input |-> input,
     requestId |-> ctx.requestId, inv |-> i]
BudgetEvent(i, reason) ==
    [type |-> "budget_exceeded", reason |-> reason, requestId |-> ctx.requestId,
     inv |-> i]
Blocked(i, t, reason) ==
    [type |-> "tool_call_blocked", toolName |-> t, reason |-> reason,
     requestId |-> ctx.requestId, inv |-> i]
NeedsApproval(i, t, reason) ==
    [type |-> "tool_call_needs_approval", toolName |-> t, reason |-> reason,
     requestId |-> ctx.requestId, inv |-> i]
Executed(i, t, d) ==
    [type |-> "tool_call_executed", toolName |-> t, durationMs |-> d,
     requestId |-> ctx.requestId, inv |-> i]
TimeoutEvent(i, t) ==
    [type |-> "tool_call_timeout", toolName |-> t, timeoutMs |-> opts.timeoutMs,
     requestId |-> ctx.requestId, inv |-> i]

\* The outcome of one call of policy.classify or policy.decide: it returns, or it
\* throws (or its promise rejects)
PolicyOutcomes == {"ok", "throws"}

\* execute(input), from the call to the first await (lines 260-302): the
\* attempted event, the call budget, the time budget, the call of classify.
\* Invocations are numbered in the order the host makes them.
Begin(i, t, input) ==
    /\ inv[i].pc = "idle"
    /\ \A j \in Invs : j < i => inv[j].pc # "idle"
    /\ LET r0 == [inv[i] EXCEPT !.toolName = t, !.input = input]
           log1 == Append(log, Attempted(i, t, redacted(opts.redactor, input)))
           calls == nextToolCalls(ctx.toolCalls)
           r1 == [r0 EXCEPT !.n = calls]
       IN IF redactThrows(opts.redactor, input)
          THEN /\ inv' = [inv EXCEPT ![i] = Settle(r0, "RangeError")]
               /\ UNCHANGED <<ctx, log>>
          ELSE IF emitThrows("tool_call_attempted")
          THEN /\ log' = log1
               /\ inv' = [inv EXCEPT ![i] = Settle(r0, "SinkError")]
               /\ UNCHANGED ctx
          ELSE /\ ctx' = [ctx EXCEPT !.toolCalls = calls]
               /\ IF callBudgetExceeded(calls, ctx.maxToolCalls)
                  THEN /\ log' = Append(log1, BudgetEvent(i, <<"Tool budget exceeded (maxToolCalls=", ctx.maxToolCalls, ")">>))
                       /\ inv' = [inv EXCEPT ![i] =
                              Settle(r1, IF emitThrows("budget_exceeded")
                                         THEN "SinkError" ELSE "BudgetExceeded")]
                  ELSE IF timeBudgetExceeded(ctx, now)
                  THEN /\ log' = Append(log1, BudgetEvent(i, <<"Time budget exceeded (maxDurationMs=", ctx.maxDurationMs, ")">>))
                       /\ inv' = [inv EXCEPT ![i] =
                              Settle(r1, IF emitThrows("budget_exceeded")
                                         THEN "SinkError" ELSE "TimeBudgetExceeded")]
                  ELSE /\ log' = log1
                       /\ \E o \in PolicyOutcomes :
                            inv' = [inv EXCEPT ![i] =
                              [r1 EXCEPT !.pc = "classify",
                                         !.cls = IF o = "ok"
                                                 THEN [st |-> "ok"] @@ classify(t)
                                                 ELSE [st |-> "threw", risk |-> "read", reason |-> ""]]]
    /\ UNCHANGED <<now, opts, probe, pq, host, libVars>>

\* A slip: a failed policy call is swallowed and the call goes on with defaults
awaitThrows_swallowed(result) == FALSE

\* await of a policy call: a rejected promise (or a throw) is rethrown
awaitThrows(result) == result.st = "threw"

\* A slip: a denial that carries a reason is not blocked
isBlocked_reasonless(decision) == ~decision.allow /\ decision.reason = <<>>

\* !decision.allow
isBlocked(decision) == ~decision.allow

\* After the await of classify (line 303): the call of decide
AfterClassify(i) ==
    /\ inv[i].pc = "classify"
    /\ LET r == inv[i]
       IN IF awaitThrows(r.cls)
          THEN inv' = [inv EXCEPT ![i] = Settle(r, "PolicyError")]
          ELSE \E o \in PolicyOutcomes :
                 inv' = [inv EXCEPT ![i] =
                   [r EXCEPT !.pc = "decide",
                             !.dec = IF o = "ok"
                                     THEN [st |-> "ok",
                                           decision |-> decide(opts.policy, r.toolName, r.cls.risk)]
                                     ELSE [st |-> "threw", decision |-> Allow]]]
    /\ UNCHANGED <<ctx, now, opts, log, probe, pq, host, libVars>>

\* A slip: the approval notice is never sent
noticeDue_never(decision) == FALSE

\* if (decision.needsApproval), line 318
noticeDue(decision) == decision.needsApproval

\* After the await of decide (lines 305-331): the block, the approval notice,
\* the call of the underlying execute and the start of the timer
AfterDecide(i) ==
    /\ inv[i].pc = "decide"
    /\ LET r == inv[i]
           d == r.dec.decision
           logA == IF noticeDue(d)
                   THEN Append(log, NeedsApproval(i, r.toolName, d.reason))
                   ELSE log
       IN IF awaitThrows(r.dec)
          THEN /\ inv' = [inv EXCEPT ![i] = Settle(r, "PolicyError")]
               /\ UNCHANGED log
          ELSE IF isBlocked(d)
          THEN /\ log' = Append(log, Blocked(i, r.toolName, d.reason))
               /\ inv' = [inv EXCEPT ![i] =
                      Settle(r, IF emitThrows("tool_call_blocked")
                                THEN "SinkError" ELSE "Blocked")]
          ELSE /\ log' = logA
               /\ IF noticeDue(d) /\ emitThrows("tool_call_needs_approval")
                  THEN inv' = [inv EXCEPT ![i] = Settle(r, "SinkError")]
                  ELSE inv' = [inv EXCEPT ![i] =
                         [r EXCEPT !.pc = "exec", !.t0 = now, !.arg = r.input,
                                   !.under = "running", !.wt = "pending"]]
    /\ UNCHANGED <<ctx, now, opts, probe, pq, host, libVars>>

\* The errors an invocation can fail with, as the catch block sees them
\* error.message?.includes('timed out')
messageTimedOut_never(err) == FALSE

messageTimedOut(err) == includes(message(err, opts.timeoutMs), <<"t","i","m","e","d"," ","o","u","t">>)

\* The underlying execute settles: withTimeout's then/catch handlers clear the
\* timer and settle the race, unless the timer has already settled it
ToolSettle(i, how, val) ==
    /\ inv[i].under = "running"
    /\ inv' = [inv EXCEPT ![i] =
          [inv[i] EXCEPT !.under = how, !.res = val,
                         !.wt = IF inv[i].wt = "pending" THEN how ELSE inv[i].wt]]
    /\ UNCHANGED <<ctx, now, opts, log, probe, pq, host, libVars>>

\* A slip: the timer is never armed
timerDue_never(t0, ms, t) == FALSE

\* setTimeout(..., ms): the callback is due once ms have elapsed
timerDue(t0, ms, t) == t >= t0 + ms

\* withTimeout's setTimeout callback: reject(new Error('Operation timed out ...'))
TimerFire(i) ==
    /\ inv[i].wt = "pending"
    /\ timerDue(inv[i].t0, opts.timeoutMs, now)
    /\ inv' = [inv EXCEPT ![i].wt = "timeout"]
    /\ UNCHANGED <<ctx, now, opts, log, probe, pq, host, libVars>>

\* After the await of withTimeout (lines 331-356): the executed event and the
\* return, or the catch block
AfterExec(i) ==
    /\ inv[i].pc = "exec"
    /\ inv[i].wt \in {"resolved", "rejected", "timeout"}
    /\ LET r == inv[i]
           \* the error the catch block receives, "" when none is thrown
           caught == CASE r.wt = "timeout" -> "Timeout"
                       [] r.wt = "rejected" -> r.res
                       [] r.wt = "resolved" /\ redactThrows(opts.redactor, r.res) -> "RangeError"
                       [] r.wt = "resolved" /\ emitThrows("tool_call_executed") -> "SinkError"
                       [] OTHER -> ""
           log1 == IF r.wt = "resolved" /\ ~redactThrows(opts.redactor, r.res)
                   THEN Append(log, Executed(i, r.toolName, now - r.t0))
                   ELSE log
       IN IF caught = ""
          THEN /\ log' = log1
               /\ inv' = [inv EXCEPT ![i] = [Settle(r, "returned") EXCEPT !.ret = r.res]]
          ELSE IF caught = "undefined"   \* error.message?.includes guards message, not error
          THEN /\ log' = log1
               /\ inv' = [inv EXCEPT ![i] = Settle(r, "TypeError")]
          ELSE IF messageTimedOut(caught)
          THEN /\ log' = Append(log1, TimeoutEvent(i, r.toolName))
               /\ inv' = [inv EXCEPT ![i] =
                      Settle(r, IF emitThrows("tool_call_timeout")
                                THEN "SinkError" ELSE caught)]
          ELSE /\ log' = log1
               /\ inv' = [inv EXCEPT ![i] = Settle(r, caught)]
    /\ UNCHANGED <<ctx, now, opts, probe, pq, host, libVars>>

\* The synthesized needsApproval predicate (lines 243-253) of a tool that
\* declares none: classify, decide, Boolean(decision.needsApproval); true on error
\* A slip: the probe asks approval for a denial
probeResult_denyAsks(threw, decision) == threw \/ decision.needsApproval \/ ~decision.allow

\* A slip: the probe fails open
probeResult_failOpen(threw, decision) == IF threw THEN FALSE ELSE decision.needsApproval

\* return Boolean(decision.needsApproval), or true from the catch block
probeResult(threw, decision) == IF threw THEN TRUE ELSE decision.needsApproval

\* A slip: the probe counts as a call
probeToolCalls_counted(toolCalls) == toolCalls + 1

\* ctx.toolCalls after the probe: its body reads toolName, input and ctx, and
\* assigns nothing
probeToolCalls(toolCalls) == toolCalls

needsApproval(t) ==
    /\ \E oc \in PolicyOutcomes, od \in PolicyOutcomes :
         LET threw == oc = "throws" \/ od = "throws"
             d == decide(opts.policy, t, classify(t).risk)
         IN probe' = [called |-> TRUE, toolName |-> t, threw |-> threw,
                      decision |-> IF threw THEN Allow ELSE d,
                      result |-> probeResult(threw, d)]
    /\ ctx' = [ctx EXCEPT !.toolCalls = probeToolCalls(ctx.toolCalls)]
    /\ UNCHANGED <<now, opts, inv, log, pq, host, libVars>>

\* Time passes
Tick ==
    /\ now < MaxTime
    /\ now' = now + 1
    /\ UNCHANGED <<ctx, opts, inv, log, probe, pq, host, libVars>>

NoProbe == [called |-> FALSE, toolName |-> <<>>, threw |-> FALSE,
            decision |-> Allow, result |-> FALSE]
NoQuery == [op |-> "none"]

\* Every option object of createSimplePolicy over the demo server's tools
PolicyNames == {search_docs, create_issue, delete_resource, send_email}
ListOptions == {Absent} \cup {Given(S) : S \in SUBSET PolicyNames}
AllPolicyOptions ==
    [denylist : ListOptions, allowlist : ListOptions,
     requireApprovalForRisk : {Absent} \cup {Given(S) : S \in SUBSET Risk}]

\* The parts of the library that a specification does not exercise
NotMade == [made |-> FALSE]
NoRedaction == [op |-> "none"]

InitWith(contexts, policies, sinkFaults, redactors, hosts) ==
    /\ ctx \in contexts
    /\ now = 0
    /\ opts \in [policy : policies, timeoutMs : {1, 2}, throwOn : sinkFaults,
                 redactor : redactors]
    /\ host \in hosts
    /\ toolset = NotMade
    /\ mem = NotMade
    /\ file = NotMade
    /\ rq = NoRedaction
    /\ page = NotMade
    /\ inv = [i \in Invs |-> IdleInv]
    /\ log = <<>>
    /\ probe = NoProbe
    /\ pq = NoQuery

\* Fresh contexts, with the limits the host sets on them
Contexts == {createDefaultContext(m, d) : m \in 1..MaxCalls, d \in DurationChoices}

\* The wrapped execute, with an audit sink whose emit returns normally
\* A host that passes plain inputs to tools that return plain results or
\* fail with an ordinary Error
PlainHost == [inputs |-> {PlainInput}, results |-> {PlainResult}, errors |-> {"ToolError"}]
Init == InitWith(Contexts, PipelinePolicies, {{}}, {NoRedactor}, {PlainHost})

Next ==
    \/ \E i \in Invs, t \in ToolNames, input \in host.inputs : Begin(i, t, input)
    \/ \E i \in Invs : AfterClassify(i)
    \/ \E i \in Invs : AfterDecide(i)
    \/ \E i \in Invs, val \in host.results : ToolSettle(i, "resolved", val)
    \/ \E i \in Invs, err \in host.errors : ToolSettle(i, "rejected", err)
    \/ \E i \in Invs : TimerFire(i)
    \/ \E i \in Invs : AfterExec(i)
    \/ Tick

Spec == Init /\ [][Next]_vars

\* The wrapped execute, with an audit sink whose emit may throw
InitSink == InitWith(Contexts, {DemoPolicy}, {{}, {"tool_call_attempted"}, {"tool_call_executed"}, {"tool_call_timeout"}}, {NoRedactor}, {PlainHost})
SpecSink == InitSink /\ [][Next]_vars

\* The wrapped execute over tools that reject with every kind of value: an
\* Error (the demo's delete_resource throws one), an Error whose message
\* speaks of a timeout of its own, and the value undefined
InitTool ==
    InitWith({createDefaultContext(m, 0) : m \in 1..MaxCalls}, {DemoPolicy}, {{}},
             {NoRedactor}, {[inputs |-> {PlainInput}, results |-> {PlainResult}, errors |-> {"ToolError", "ToolErrorTimedOut", "undefined"}]})
SpecTool == InitTool /\ [][Next]_vars

\* The wrapped execute with a redactor, over inputs and results that hold
\* secrets or refer to themselves
InitRedact ==
    InitWith({createDefaultContext(1, 0)}, {DemoPolicy}, {{}},
             {NoRedactor, Given({key_Password})},
             {[inputs |-> {SecretInput, NestedSecretInput, CyclicValue},
               results |-> {SecretResult, CyclicValue}, errors |-> {"ToolError"}]})
SpecRedact == InitRedact /\ [][Next]_vars

\* The wrapped execute on a context that has already served earlier
\* invocations of the request: toolCalls counts them
\* opts.ctx ?? createDefaultContext(): the default context, one call short of
\* its limit
InitBudget ==
    InitWith({[createDefaultContext(m, d) EXCEPT !.toolCalls = k] :
                 m \in 1..MaxCalls, d \in DurationChoices, k \in 0..MaxCalls}
             \cup {[createDefaultContext(DefaultMaxToolCalls, DefaultMaxDurationMs)
                       EXCEPT !.toolCalls = DefaultMaxToolCalls - 1]},
             {DemoPolicy}, {{}}, {NoRedactor}, {PlainHost})
SpecBudget == InitBudget /\ [][Next]_vars

\* The wrapped execute under the scheduling of the event loop: a continuation
\* whose await has settled runs, a due timer fires, time passes.  Nothing
\* obliges a tool to settle.
InitLive ==
    InitWith({createDefaultContext(1, 0)}, PipelinePolicies, {{}}, {NoRedactor},
             {PlainHost})
Fairness ==
    /\ WF_vars(Tick)
    /\ \A i \in Invs :
         /\ WF_vars(AfterClassify(i))
         /\ WF_vars(AfterDecide(i))
         /\ WF_vars(TimerFire(i))
         /\ WF_vars(AfterExec(i))
SpecLive == InitLive /\ [][Next]_vars /\ Fairness

----------------------------------------------------------------------------
(* guardTools(tools, opts): the wrapped toolset *)

\* A tool is an object: a function from its own keys to their values
Undefined == [t |-> "undefined", v |-> ""]
BooleanValue(b) == [t |-> "boolean", v |-> IF b THEN "true" ELSE "false"]
FunctionValue(f) == [t |-> "function", v |-> f]

\* The values a host tool may hold under each key
ToolValues(k) ==
    CASE k = "description" -> {StringValue("Search documentation")}
      [] k = "inputSchema" -> {StringValue("z.object({ query })")}
      [] k = "parameters" -> {StringValue("z.object({ id })")}
      [] k = "execute" -> {FunctionValue("execute of the host tool")}
      [] k = "needsApproval" ->
           {BooleanValue(TRUE), BooleanValue(FALSE),
            FunctionValue("needsApproval of the host tool"), Undefined}

\* Every tool object over these keys, and every toolset over two tool names
RECURSIVE ObjectsOver(_)
ObjectsOver(keys) ==
    IF keys = {} THEN {<<>>}
    ELSE LET k == CHOOSE x \in keys : TRUE
             rest == ObjectsOver(keys \ {k})
         IN rest \cup {(k :> val) @@ o : val \in ToolValues(k), o \in rest}
WrapNames == {search_docs, delete_resource}
Toolsets ==
    UNION {[names -> ObjectsOver({"description", "inputSchema", "parameters", "execute", "needsApproval"})] : names \in SUBSET WrapNames}

\* obj[key], undefined when the object has no such key
Get(obj, key) == IF key \in DOMAIN obj THEN obj[key] ELSE Undefined

\* A slip: the wrapped tool is built from scratch, without the spread
wrapTool_noSpread(tool) ==
    [k \in {"needsApproval", "execute"} |->
        IF k = "needsApproval"
        THEN (IF Get(tool, "needsApproval") # Undefined
              THEN Get(tool, "needsApproval")
              ELSE FunctionValue("synthesized needsApproval"))
        ELSE (IF Get(tool, "execute") # Undefined
              THEN FunctionValue("guarded execute")
              ELSE Undefined)]

\* A slip: || in place of ??, a declared false gives way to the probe
wrapTool_falsyReplaced(tool) ==
    [k \in DOMAIN tool \cup {"needsApproval", "execute"} |->
        IF k = "needsApproval"
        THEN (IF Get(tool, "needsApproval") \notin {Undefined, BooleanValue(FALSE)}
              THEN Get(tool, "needsApproval")
              ELSE FunctionValue("synthesized needsApproval"))
        ELSE IF k = "execute"
        THEN (IF Get(tool, "execute") # Undefined
              THEN FunctionValue("guarded execute")
              ELSE Undefined)
        ELSE tool[k]]

\* { ...tool, needsApproval, execute: originalExecute ? async (input) => ... : undefined }
wrapTool(tool) ==
    LET originalExecute == Get(tool, "execute")
        needsApprovalValue ==
            IF Get(tool, "needsApproval") # Undefined
            THEN Get(tool, "needsApproval")
            ELSE FunctionValue("synthesized needsApproval")
    IN [k \in DOMAIN tool \cup {"needsApproval", "execute"} |->
           IF k = "needsApproval" THEN needsApprovalValue
           ELSE IF k = "execute"
           THEN (IF originalExecute # Undefined
                 THEN FunctionValue("guarded execute")
                 ELSE Undefined)
           ELSE tool[k]]

\* guardTools(tools, opts): wrapped[toolName] for each entry of tools; tools
\* itself is only read
guardTools ==
    /\ toolset.made = FALSE
    /\ toolset' = [toolset EXCEPT
                      !.made = TRUE,
                      !.wrapped = [n \in DOMAIN toolset.tools |-> wrapTool(toolset.tools[n])]]
    /\ UNCHANGED <<pipeVars, mem, file, rq, page>>

PipeIdle ==
    /\ ctx = createDefaultContext(1, 0)
    /\ now = 0
    /\ opts = [policy |-> DemoPolicy, timeoutMs |-> 1, throwOn |-> {},
               redactor |-> NoRedactor]
    /\ inv = [i \in Invs |-> IdleInv]
    /\ log = <<>>
    /\ probe = NoProbe
    /\ pq = NoQuery
    /\ host = PlainHost

InitWrap ==
    /\ PipeIdle
    /\ toolset \in {[made |-> FALSE, given |-> ts, tools |-> ts, wrapped |-> <<>>] :
                        ts \in Toolsets}
    /\ mem = NotMade
    /\ file = NotMade
    /\ rq = NoRedaction
    /\ page = NotMade
SpecWrap == InitWrap /\ [][guardTools]_vars

----------------------------------------------------------------------------
(* InMemoryAuditSink *)

\* The calls to emit and clear a run may make
MaxOps == 3

\* The audit events a test emits: two request ids, two event types
MemEvents ==
    [type : {"tool_call_attempted", "tool_call_executed"},
     requestId : {"req-1", "req-2"}]
NoAnswer == [op |-> "none", id |-> "", val |-> <<>>]

\* A slip: clear() leaves the array as it is
cleared_kept(events) == events

\* this.events = []
cleared(events) == <<>>

\* A slip: the filter keeps the events of the other requests
eventsForRequest_others(events, requestId) ==
    SelectSeq(events, LAMBDA e : e.requestId # requestId)

\* this.events.filter((e) => e.requestId === requestId)
eventsForRequest(events, requestId) ==
    SelectSeq(events, LAMBDA e : e.requestId = requestId)

\* emit(event): this.events.push(event)
MemEmit(e) ==
    /\ mem.made
    /\ Len(mem.calls) < MaxOps
    /\ mem' = [mem EXCEPT !.events = Append(@, e),
                          !.calls = Append(@, [op |-> "emit", event |-> e]),
                          !.answer = NoAnswer]
    /\ UNCHANGED <<pipeVars, toolset, file, rq, page>>

\* clear()
MemClear ==
    /\ mem.made
    /\ Len(mem.calls) < MaxOps
    /\ mem' = [mem EXCEPT !.events = cleared(@),
                          !.calls = Append(@, [op |-> "clear", event |-> <<>>]),
                          !.answer = NoAnswer]
    /\ UNCHANGED <<pipeVars, toolset, file, rq, page>>

\* getEvents(): return this.events
MemGetEvents ==
    /\ mem.made
    /\ mem' = [mem EXCEPT !.answer = [op |-> "getEvents", id |-> "", val |-> mem.events]]
    /\ UNCHANGED <<pipeVars, toolset, file, rq, page>>

\* getEventsForRequest(requestId)
MemGetEventsForRequest(requestId) ==
    /\ mem.made
    /\ mem' = [mem EXCEPT !.answer = [op |-> "getEventsForRequest", id |-> requestId,
                                     val |-> eventsForRequest(mem.events, requestId)]]
    /\ UNCHANGED <<pipeVars, toolset, file, rq, page>>

InitMem ==
    /\ PipeIdle
    /\ toolset = NotMade
    /\ mem = [made |-> TRUE, events |-> <<>>, calls |-> <<>>, answer |-> NoAnswer]
    /\ file = NotMade
    /\ rq = NoRedaction
    /\ page = NotMade
NextMem ==
    \/ \E e \in MemEvents : MemEmit(e)
    \/ MemClear
    \/ MemGetEvents
    \/ \E id \in {"req-1", "req-2", "req-3"} : MemGetEventsForRequest(id)
SpecMem == InitMem /\ [][NextMem]_vars

----------------------------------------------------------------------------
(* FileAuditSink *)

\* The audit events written to a file: reason is an optional field
FileEvents ==
    [type : {"tool_call_attempted", "tool_call_blocked"},
     requestId : {"req-1", "req-2"},
     reason : {"undefined", "Tool is in denylist"}]

\* JSON.stringify(event): the text as a sequence of tokens; a field whose
\* value is undefined is left out
stringify(e) ==
    <<"{", "type", ":", e.type, ",", "requestId", ":", e.requestId>>
    \o (IF e.reason = "undefined" THEN <<>> ELSE <<",", "reason", ":", e.reason>>)
    \o <<"}">>

\* import('node:fs').then(fs => { this.writeStream = fs.createWriteStream(...) })
FileImportResolves ==
    /\ file.made
    /\ file.import = "pending"
    /\ file' = [file EXCEPT !.import = "resolved", !.writeStream = "open"]
    /\ UNCHANGED <<pipeVars, toolset, mem, rq, page>>

\* emit(event): if (this.writeStream) write; the stream is there once the
\* import has resolved, and a write to an ended stream adds nothing to the file
FileEmit(e) ==
    /\ file.made
    /\ Len(file.emitted) + Len(file.late) < MaxOps
    /\ file' = [file EXCEPT
                   !.content = IF file.writeStream = "open"
                               THEN @ \o stringify(e) \o <<"\n">>
                               ELSE @,
                   !.emitted = IF file.closed THEN @ ELSE Append(@, e),
                   !.late = IF file.closed THEN Append(@, e) ELSE @]
    /\ UNCHANGED <<pipeVars, toolset, mem, rq, page>>

\* this.writeStream?.end(): nothing when the stream is not there
endStream(writeStream) == IF writeStream = "undefined" THEN writeStream ELSE "ended"

\* close(), as often as the host calls it
FileClose ==
    /\ file.made
    /\ file' = [file EXCEPT !.closed = TRUE, !.writeStream = endStream(@)]
    /\ UNCHANGED <<pipeVars, toolset, mem, rq, page>>

\* new FileAuditSink(filePath): the import is started, the stream is not there
InitFile ==
    /\ PipeIdle
    /\ toolset = NotMade
    /\ mem = NotMade
    /\ file = [made |-> TRUE, import |-> "pending", writeStream |-> "undefined",
               content |-> <<>>, emitted |-> <<>>, late |-> <<>>, closed |-> FALSE]
    /\ rq = NoRedaction
    /\ page = NotMade
NextFile ==
    \/ FileImportResolves
    \/ \E e \in FileEvents : FileEmit(e)
    \/ FileClose
SpecFile == InitFile /\ [][NextFile]_vars

----------------------------------------------------------------------------
(* The demo page: approval cards *)

\* The tool parts a conversation shows at once
MaxParts == 3
Parts == 1..MaxParts

\* handleApprove(toolCallId, toolName, args): addToolResult with the made-up
\* result; neither the guarded tool nor the audit sink is called
handleApprove(p) ==
    /\ page.made
    /\ page.parts[p].state = "approval-requested"
    /\ page' = [page EXCEPT !.parts[p] =
                   [@ EXCEPT !.state = "output-available",
                             !.output =
                                 [success |-> TRUE,
                                  message |->
                                     CASE page.parts[p].toolName = create_issue -> "Created issue"
                                       [] page.parts[p].toolName = send_email -> "Email sent"
                                       [] OTHER -> "Tool executed successfully"],
                             !.decision = "approved"]]
    /\ UNCHANGED <<pipeVars, toolset, mem, file, rq>>

\* handleDeny(toolCallId, toolName): console.log and addToolResult
handleDeny(p) ==
    /\ page.made
    /\ page.parts[p].state = "approval-requested"
    /\ page' = [page EXCEPT !.parts[p] =
                   [@ EXCEPT !.state = "output-available",
                             !.output = [success |-> FALSE,
                                        message |-> "Tool execution denied by user"],
                             !.decision = "denied"]]
    /\ UNCHANGED <<pipeVars, toolset, mem, file, rq>>

\* The page shows an approval card for each tool part
InitPage ==
    /\ PipeIdle
    /\ toolset = NotMade
    /\ mem = NotMade
    /\ file = NotMade
    /\ rq = NoRedaction
    /\ page \in {[made |-> TRUE,
                   parts |-> [p \in Parts |->
                                [toolName |-> names[p], state |-> "approval-requested",
                                 output |-> [success |-> FALSE, message |-> ""],
                                 decision |-> "none"]]] :
                  names \in [Parts -> {create_issue, send_email, delete_resource}]}
NextPage == \E p \in Parts : handleApprove(p) \/ handleDeny(p)
SpecPage == InitPage /\ [][NextPage]_vars

----------------------------------------------------------------------------
(* createFieldRedactor(fields).redact(value), called on its own *)

\* The nesting depth of the values redacted
MaxDepth == 2

NullValue == [t |-> "null", v |-> ""]
Leaves == {StringValue("hunter2"), NullValue}
FieldKeys == {key_query, key_password, key_Password}

\* The structured values of nesting depth up to d: scalars, sequences of one
\* or two items, mappings of one or two keys
RECURSIVE ValuesOfDepth(_)
ValuesOfDepth(d) ==
    IF d = 0 THEN Leaves
    ELSE LET inner == ValuesOfDepth(d - 1)
         IN inner
            \cup {ArrayValue(<<a>>) : a \in inner}
            \cup {ArrayValue(<<a, b>>) : a \in inner, b \in Leaves}
            \cup {ObjectValue(<<Entry(k, a)>>) : k \in FieldKeys, a \in inner}
            \cup {ObjectValue(<<Entry(k[1], a), Entry(k[2], b)>>) :
                     k \in {kk \in FieldKeys \X FieldKeys : kk[1] # kk[2]},
                     a \in inner, b \in Leaves}

\* The field lists given to createFieldRedactor

\* redactor.redact(value)
FieldRedactCall ==
    /\ rq.op = "field"
    /\ ~rq.done
    /\ rq' = [rq EXCEPT !.done = TRUE, !.out = fieldRedact(rq.fields, rq.value)]
    /\ UNCHANGED <<pipeVars, toolset, mem, file, page>>

InitField ==
    /\ PipeIdle
    /\ toolset = NotMade
    /\ mem = NotMade
    /\ file = NotMade
    /\ rq \in {[op |-> "field", fields |-> f, value |-> v, done |-> FALSE, out |-> NullValue] :
                 f \in {{key_password}, {key_Password, key_user}}, v \in ValuesOfDepth(MaxDepth)}
    /\ page = NotMade
SpecField == InitField /\ [][FieldRedactCall]_vars

----------------------------------------------------------------------------
(* createRegexRedactor and createDefaultRedactor *)

\* Character classes of the patterns
Digits == {"0","1","2","3","4","5","6","7","8","9"}
Uppers == {UpperChars[k] : k \in 1..Len(UpperChars)}
Lowers == {LowerChars[k] : k \in 1..Len(LowerChars)}
Alnum == Uppers \cup Lowers \cup Digits
TokenChars == Alnum \cup {"_", "-"}
WordChars == Alnum \cup {"_"}

\* The pieces of a pattern: \b, a literal text, a class repeated min to max
\* times (max = -1: no upper limit)
WordBoundary == <<[kind |-> "b", cls |-> {}, min |-> 0, max |-> 0]>>
Lit(text) == [k \in 1..Len(text) |-> [kind |-> "c", cls |-> {text[k]}, min |-> 1, max |-> 1]]
Times(cls, min, max) == <<[kind |-> "c", cls |-> cls, min |-> min, max |-> max]>>
Rep(c, n) == [k \in 1..n |-> c]

\* The header of a private key, with the given text after BEGIN
PrivateKeyHeader(between) ==
    <<"-","-","-","-","-","B","E","G","I","N">> \o between
    \o <<"P","R","I","V","A","T","E">> \o <<" ">> \o <<"K","E","Y","-","-","-","-","-">>

\* DEFAULT_SECRET_PATTERNS, each a list of alternatives in the order the
\* engine tries them (the optional group of the private-key pattern first
\* with RSA, then without)
DEFAULT_SECRET_PATTERNS ==
    LET spaces == Times({" ", "\t", "\n"}, 1, -1)
        begin == Lit(<<"-","-","-","-","-","B","E","G","I","N">>) \o spaces
        private == Lit(<<"P","R","I","V","A","T","E">>) \o spaces
                   \o Lit(<<"K","E","Y","-","-","-","-","-">>)
    IN << <<WordBoundary \o Lit(<<"s","k","-">>) \o Times(Alnum, 48, 48) \o WordBoundary>>,
          <<WordBoundary \o Lit(<<"s","k","_","l","i","v","e","_">>) \o Times(Alnum, 24, -1)
               \o WordBoundary>>,
          <<WordBoundary \o Lit(<<"s","k","_","t","e","s","t","_">>) \o Times(Alnum, 24, -1)
               \o WordBoundary>>,
          <<WordBoundary \o Times(TokenChars, 40, 40) \o WordBoundary>>,
          <<WordBoundary \o Lit(<<"g","h","p","_">>) \o Times(Alnum, 36, 36) \o WordBoundary>>,
          <<WordBoundary \o Lit(<<"g","h","o","_">>) \o Times(Alnum, 36, 36) \o WordBoundary>>,
          <<WordBoundary \o Lit(<<"A","K","I","A">>) \o Times(Digits \cup Uppers, 16, 16)
               \o WordBoundary>>,
          <<begin \o Lit(<<"R","S","A">>) \o spaces \o private, begin \o private>>,
          <<WordBoundary \o Times(TokenChars, 32, -1) \o WordBoundary>> >>

\* DEFAULT_PII_PATTERNS
DEFAULT_PII_PATTERNS ==
    << <<WordBoundary \o Times(Digits, 3, 3) \o Lit(<<"-">>) \o Times(Digits, 2, 2)
            \o Lit(<<"-">>) \o Times(Digits, 4, 4) \o WordBoundary>>,
       <<WordBoundary \o Times(Digits, 16, 16) \o WordBoundary>>,
       <<WordBoundary \o Times(Alnum \cup {".", "_", "%", "+", "-"}, 1, -1) \o Lit(<<"@">>)
            \o Times(Alnum \cup {".", "-"}, 1, -1) \o Lit(<<".">>)
            \o Times(Uppers \cup Lowers \cup {"|"}, 2, -1) \o WordBoundary>> >>

\* \b at position pos (between s[pos - 1] and s[pos])
atWordBoundary(s, pos) ==
    (pos > 1 /\ s[pos - 1] \in WordChars) # (pos <= Len(s) /\ s[pos] \in WordChars)

\* The number of characters of the class from pos on, up to max
runLength(s, pos, cls, max) ==
    LET left == Len(s) - pos + 1
        limit == IF max = -1 \/ left < max THEN left ELSE max
        stops == {n \in 0..(limit - 1) : s[pos + n] \notin cls}
    IN IF stops = {} THEN limit ELSE CHOOSE n \in stops : \A m \in stops : n <= m

\* The regular-expression engine on one alternative: the position after the
\* match of atoms[k..] at pos, or 0 when there is none; a repetition is
\* greedy and gives characters back until the rest matches
RECURSIVE matchEnd(_, _, _, _)
matchEnd(atoms, k, s, pos) ==
    IF k > Len(atoms) THEN pos
    ELSE IF atoms[k].kind = "b"
    THEN (IF atWordBoundary(s, pos) THEN matchEnd(atoms, k + 1, s, pos) ELSE 0)
    ELSE IF atoms[k].min = atoms[k].max
    THEN (IF runLength(s, pos, atoms[k].cls, atoms[k].max) < atoms[k].min THEN 0
          ELSE matchEnd(atoms, k + 1, s, pos + atoms[k].min))
    ELSE LET run == runLength(s, pos, atoms[k].cls, atoms[k].max)
             counts == {n \in atoms[k].min..run : matchEnd(atoms, k + 1, s, pos + n) # 0}
         IN IF counts = {} THEN 0
            ELSE matchEnd(atoms, k + 1, s,
                          pos + CHOOSE n \in counts : \A m \in counts : m <= n)

\* The match of a pattern at pos: the first alternative that matches
RECURSIVE patternEnd(_, _, _, _)
patternEnd(pattern, a, s, pos) ==
    IF a > Len(pattern) THEN 0
    ELSE LET e == matchEnd(pattern[a], 1, s, pos)
         IN IF e # 0 THEN e ELSE patternEnd(pattern, a + 1, s, pos)

ReplacementChars == <<"[","R","E","D","A","C","T","E","D","]">>

RECURSIVE replace(_, _, _)

\* A slip: the pattern has no g flag, only the first match is replaced
replace_firstOnly(pattern, s, pos) ==
    LET starts == {p \in pos..Len(s) : patternEnd(pattern, 1, s, p) # 0}
        first == CHOOSE p \in starts : \A q \in starts : p <= q
    IN IF starts = {} THEN SubSeq(s, pos, Len(s))
       ELSE SubSeq(s, pos, first - 1) \o ReplacementChars
            \o SubSeq(s, patternEnd(pattern, 1, s, first), Len(s))

\* redacted.replace(pattern, replacement) with a g pattern: every match from
\* left to right, each search starting where the last match ended
replace(pattern, s, pos) ==
    LET starts == {p \in pos..Len(s) : patternEnd(pattern, 1, s, p) # 0}
        first == CHOOSE p \in starts : \A q \in starts : p <= q
    IN IF starts = {} THEN SubSeq(s, pos, Len(s))
       ELSE SubSeq(s, pos, first - 1) \o ReplacementChars
            \o replace(pattern, s, patternEnd(pattern, 1, s, first))

\* for (const pattern of patterns) redacted = redacted.replace(pattern, replacement)
RECURSIVE replaceEach(_, _, _)
replaceEach(patterns, k, s) ==
    IF k > Len(patterns) THEN s
    ELSE replaceEach(patterns, k + 1, replace(patterns[k], s, 1))

\* createRegexRedactor(patterns).redact(value)
RECURSIVE regexRedact(_, _)
regexRedact(patterns, value) ==
    CASE value.t = "string" -> StringValue(replaceEach(patterns, 1, value.v))
      [] value.t = "array" ->
           ArrayValue([k \in 1..Len(value.v) |-> regexRedact(patterns, value.v[k])])
      [] value.t = "object" ->
           ObjectValue([k \in 1..Len(value.v) |->
               Entry(value.v[k].key, regexRedact(patterns, value.v[k].val))])
      [] OTHER -> value

\* createDefaultRedactor().redact(value)
defaultRedact(value) ==
    regexRedact(DEFAULT_SECRET_PATTERNS \o DEFAULT_PII_PATTERNS, value)

\* The pieces the redacted texts are put together from: keys of four vendors,
\* a private-key header, a token one character short of the generic pattern,
\* an e-mail address, and separators
MaxChunks == 2
Chunks ==
    {<<"s","k","-">> \o Rep("a", 48),
     <<"s","k","_","l","i","v","e","_">> \o Rep("a", 24),
     <<"g","h","p","_">> \o Rep("a", 36),
     <<"A","K","I","A">> \o Rep("0", 16),
     PrivateKeyHeader(<<" ","R","S","A"," ">>),
     Rep("b", 31),
     <<"a","@","b",".","c","o">>,
     <<"-">>, <<" ">>, <<"b">>}
RECURSIVE TextsOf(_)
TextsOf(n) ==
    IF n = 0 THEN {<<>>}
    ELSE TextsOf(n - 1) \cup {t \o c : t \in TextsOf(n - 1), c \in Chunks}

\* A text on its own, or inside a sequence inside a mapping
RedactedValues ==
    {StringValue(t) : t \in TextsOf(MaxChunks)}
    \cup {ObjectValue(<<Entry(key_query,
                ArrayValue(<<StringValue(t), StringValue(<<"d","o","c","s">>)>>))>>) :
             t \in TextsOf(MaxChunks)}

\* redactor.redact(value)
DefaultRedactCall ==
    /\ rq.op = "default"
    /\ rq.pass = 0
    /\ rq' = [rq EXCEPT !.pass = 1, !.out = defaultRedact(rq.value)]
    /\ UNCHANGED <<pipeVars, toolset, mem, file, page>>

\* redactor.redact(redactor.redact(value))
DefaultRedactAgain ==
    /\ rq.op = "default"
    /\ rq.pass = 1
    /\ rq' = [rq EXCEPT !.pass = 2, !.again = defaultRedact(rq.out)]
    /\ UNCHANGED <<pipeVars, toolset, mem, file, page>>

InitDefault ==
    /\ PipeIdle
    /\ toolset = NotMade
    /\ mem = NotMade
    /\ file = NotMade
    /\ rq \in {[op |-> "default", value |-> v, pass |-> 0, out |-> NullValue,
                 again |-> NullValue] : v \in RedactedValues}
    /\ page = NotMade
NextDefault == DefaultRedactCall \/ DefaultRedactAgain
SpecDefault == InitDefault /\ [][NextDefault]_vars

----------------------------------------------------------------------------
(* composeRedactors(...redactors) *)

\* The redactors a composite is made of: at most MaxRedactors in all
MaxRedactors == 3

\* redactor.redact(value), for a redactor made by createRegexRedactor or by
\* composeRedactors
RECURSIVE redactWith(_, _)
RECURSIVE composeRedactors(_, _, _)
redactWith(redactor, value) ==
    IF redactor.kind = "compose"
    THEN composeRedactors(redactor.redactors, 1, value)
    ELSE regexRedact(redactor.patterns, value)

\* A slip: result = redactor.redact(value), each redactor gets the original
composeRedactors_eachGetsOriginal(redactors, k, result) ==
    IF redactors = <<>> THEN result
    ELSE redactWith(redactors[Len(redactors)], result)

\* composeRedactors(...redactors).redact(value): the loop over the list from
\* its k-th redactor on, result holding the value so far
composeRedactors(redactors, k, result) ==
    IF k > Len(redactors) THEN result
    ELSE composeRedactors(redactors, k + 1, redactWith(redactors[k], result))

ComposeCall ==
    /\ rq.op = "compose"
    /\ ~rq.done
    /\ rq' = [rq EXCEPT !.done = TRUE, !.out = composeRedactors(rq.redactors, 1, rq.value)]
    /\ UNCHANGED <<pipeVars, toolset, mem, file, page>>

\* Composites of createRegexRedactor([/x/g]), ([/R/g]) and ([/\]/g]), whose
\* replacement text holds an R and a ], given as a flat list or with a part of
\* the list (an empty part too) wrapped in a composite of its own, on strings
\* and structured values
InitCompose ==
    /\ PipeIdle
    /\ toolset = NotMade
    /\ mem = NotMade
    /\ file = NotMade
    /\ LET regex(c) == [kind |-> "regex", patterns |-> << <<Lit(<<c>>)>> >>]
           compose(l) == [kind |-> "compose", redactors |-> l]
           flat == UNION {[1..n -> {regex("x"), regex("R"), regex("]")}] : n \in 0..MaxRedactors}
           nested(l) ==
               {l, <<compose(l)>>, <<compose(<<compose(l)>>)>>}
               \cup {<<compose(SubSeq(l, 1, k))>> \o SubSeq(l, k + 1, Len(l)) : k \in 0..Len(l)}
               \cup {SubSeq(l, 1, k) \o <<compose(SubSeq(l, k + 1, Len(l)))>> : k \in 0..Len(l)}
           values == {StringValue(<<"x">>), StringValue(<<"o","k">>), NullValue,
                      ObjectValue(<<Entry(key_query, StringValue(<<"x","]">>))>>),
                      ArrayValue(<<StringValue(<<"R">>),
                                   ObjectValue(<<Entry(key_user, StringValue(<<"a","x">>))>>)>>)}
       IN rq \in {[op |-> "compose", redactors |-> r, value |-> v, done |-> FALSE,
                    out |-> NullValue] : r \in UNION {nested(l) : l \in flat}, v \in values}
    /\ page = NotMade
SpecCompose == InitCompose /\ [][ComposeCall]_vars

\* The approval probe of a wrapped tool, under every simple policy
InitProbe == InitWith({createDefaultContext(1, 0)}, AllPolicyOptions, {{}}, {NoRedactor}, {PlainHost})
NextProbe == \E t \in PolicyNames : needsApproval(t)
SpecProbe == InitProbe /\ [][NextProbe]_vars

\* classify called directly on tool names of every spelling: the tokens of
\* the heuristic and neutral words, in lower case and in upper case, joined
MaxNameParts == 2
NameParts ==
    LET upper(s) == [k \in 1..Len(s) |->
                       IF \E u \in 1..26 : LowerChars[u] = s[k]
                       THEN UpperChars[CHOOSE u \in 1..26 : LowerChars[u] = s[k]]
                       ELSE s[k]]
        words == AdminTokens \cup WriteTokens \cup {<<"g","e","t">>, <<"_","d","o","c","s">>}
    IN words \cup {upper(w) : w \in words}
RECURSIVE NamesOf(_)
NamesOf(n) ==
    IF n = 0 THEN {<<>>}
    ELSE NamesOf(n - 1) \cup {a \o b : a \in NamesOf(n - 1), b \in NameParts}

\* policy.classify(toolName, input), called once
ClassifyNamed ==
    /\ pq = NoQuery
    /\ \E t \in NamesOf(MaxNameParts), input \in {PlainInput, SecretInput} :
         pq' = [op |-> "classify", toolName |-> t, input |-> input, result |-> classify(t)]
    /\ UNCHANGED <<ctx, now, opts, inv, log, probe, host, libVars>>

InitIdle ==
    /\ PipeIdle
    /\ toolset = NotMade
    /\ mem = NotMade
    /\ file = NotMade
    /\ rq = NoRedaction
    /\ page = NotMade
SpecClassify == InitIdle /\ [][ClassifyNamed]_vars

----------------------------------------------------------------------------
(* PolicyBuilder *)

\* The classifiers or rules one builder is given: at most MaxRegistered of each
MaxRegistered == 2

\* A classifier or a rule returns its result for the tool names (and, a rule,
\* the risks) it has an opinion on, and null for the others
hasOpinion(fn, args) ==
    /\ args.toolName \in fn.names
    /\ "risks" \in DOMAIN fn => args.risk \in fn.risks

\* A slip: the loop goes on after a definitive answer, the last one wins
firstDefinitive_lastWins(fns, k, args, default, called) ==
    LET opinions == {j \in 1..Len(fns) : hasOpinion(fns[j], args)}
    IN [answer |-> IF opinions = {} THEN default
                   ELSE fns[CHOOSE j \in opinions : \A i \in opinions : i <= j].result,
        called |-> [j \in 1..Len(fns) |-> j]]

\* for (const f of list) { const result = f(...); if (result) return result }
\* return default: the loop from the k-th function on; called lists the
\* functions called so far
RECURSIVE firstDefinitive(_, _, _, _, _)
firstDefinitive(fns, k, args, default, called) ==
    IF k > Len(fns) THEN [answer |-> default, called |-> called]
    ELSE IF hasOpinion(fns[k], args)
    THEN [answer |-> fns[k].result, called |-> Append(called, k)]
    ELSE firstDefinitive(fns, k + 1, args, default, Append(called, k))

\* new PolicyBuilder()
NewPolicyBuilder ==
    /\ pq = NoQuery
    /\ pq' = [op |-> "builder", classifiers |-> <<>>, rules |-> <<>>, built |-> FALSE,
              last |-> [kind |-> "none"]]
    /\ UNCHANGED <<ctx, now, opts, inv, log, probe, host, libVars>>

\* addClassifier(classifier): one that calls deletions admin, one that calls
\* creations and deletions write, one that never has an opinion
addClassifier ==
    /\ pq.op = "builder"
    /\ Len(pq.classifiers) < MaxRegistered
    /\ \E c \in {[names |-> {delete_resource}, result |-> [risk |-> "admin"]],
                  [names |-> {create_issue, delete_resource}, result |-> [risk |-> "write"]],
                  [names |-> {}, result |-> [risk |-> "read"]]} :
         pq' = [pq EXCEPT !.classifiers = Append(@, c)]
    /\ UNCHANGED <<ctx, now, opts, inv, log, probe, host, libVars>>

\* addRule(rule): one that denies deletions, one that asks approval for the
\* write and admin tiers, one that never has an opinion
addRule ==
    /\ pq.op = "builder"
    /\ Len(pq.rules) < MaxRegistered
    /\ \E r \in {[names |-> {delete_resource}, risks |-> Risk,
                   result |-> Deny(<<"deletions are off">>)],
                  [names |-> ToolNames, risks |-> {"write", "admin"},
                   result |-> AllowNeedsApproval(<<"risky">>)],
                  [names |-> {}, risks |-> Risk, result |-> Allow]} :
         pq' = [pq EXCEPT !.rules = Append(@, r)]
    /\ UNCHANGED <<ctx, now, opts, inv, log, probe, host, libVars>>

\* build(): the policy's closures read this.classifiers and this.rules when
\* they are called
build ==
    /\ pq.op = "builder"
    /\ pq' = [pq EXCEPT !.built = TRUE]
    /\ UNCHANGED <<ctx, now, opts, inv, log, probe, host, libVars>>

\* classify(toolName, input) of the built policy
BuiltClassify ==
    /\ pq.op = "builder"
    /\ pq.built
    /\ \E t \in ToolNames :
         LET args == [toolName |-> t]
             r == firstDefinitive(pq.classifiers, 1, args, [risk |-> "read"], <<>>)
         IN pq' = [pq EXCEPT !.last = [kind |-> "classify", args |-> args,
                                       answer |-> r.answer, called |-> r.called]]
    /\ UNCHANGED <<ctx, now, opts, inv, log, probe, host, libVars>>

\* decide(args) of the built policy
BuiltDecide ==
    /\ pq.op = "builder"
    /\ pq.built
    /\ \E t \in ToolNames, risk \in Risk :
         LET args == [toolName |-> t, risk |-> risk]
             r == firstDefinitive(pq.rules, 1, args, Allow, <<>>)
         IN pq' = [pq EXCEPT !.last = [kind |-> "decide", args |-> args,
                                       answer |-> r.answer, called |-> r.called]]
    /\ UNCHANGED <<ctx, now, opts, inv, log, probe, host, libVars>>

SpecBuilder ==
    InitIdle /\ [][NewPolicyBuilder \/ addClassifier \/ addRule \/ build
                      \/ BuiltClassify \/ BuiltDecide]_vars

\* The approval probe and the wrapped execute of the same toolset under the
\* demo route's policy, as an SDK calls them: the probe any number of times,
\* around the invocations
InitGate == InitWith({createDefaultContext(1, 0)}, {DemoPolicy}, {{}}, {NoRedactor}, {PlainHost})
SpecGate == InitGate /\ [][Next \/ NextProbe]_vars

\* The simple policy called directly: createSimplePolicy(opts.policy)
DecideCall ==
    /\ \E t \in PolicyNames, risk \in Risk :
         pq' = [op |-> "decide", toolName |-> t, risk |-> risk,
                decision |-> decide(opts.policy, t, risk)]
    /\ UNCHANGED <<ctx, now, opts, inv, log, probe, host, libVars>>

ClassifyCall ==
    /\ \E t \in PolicyNames :
         pq' = [op |-> "classify", toolName |-> t, result |-> classify(t)]
    /\ UNCHANGED <<ctx, now, opts, inv, log, probe, host, libVars>>

InitPolicy == InitWith({createDefaultContext(1, 0)}, AllPolicyOptions, {{}}, {NoRedactor}, {PlainHost})
NextPolicy == DecideCall \/ ClassifyCall
SpecPolicy == InitPolicy /\ [][NextPolicy]_vars

----------------------------------------------------------------------------
(* Properties *)

\* The events one invocation emitted, in emission order, and their types
EventsOf(i) == SelectSeq(log, LAMBDA e : e.inv = i)
TypesOf(i) == [k \in 1..Len(EventsOf(i)) |-> EventsOf(i)[k].type]
Count(i, type) == Cardinality({k \in 1..Len(log) : log[k].inv = i /\ log[k].type = type})

\* The invocation was made and was not rejected by the call-count check
PastCallCheck(i) == inv[i].pc # "idle" /\ inv[i].outcome # "BudgetExceeded"
\* The underlying execute was called for the invocation
Started(i) == inv[i].under # "notcalled"

\* C1: whatever the interleaving of the invocations that share the context, at
\* most maxToolCalls of them get past the call-count check, hence at most
\* maxToolCalls underlying executions are started; each invocation compares
\* the counter value of its own increment (no two see the same value).
C1_CallBudgetNeverExceeded ==
    /\ Cardinality({i \in Invs : PastCallCheck(i)}) <= ctx.maxToolCalls
    /\ Cardinality({i \in Invs : Started(i)}) <= ctx.maxToolCalls
    /\ \A i, j \in Invs :
         (i # j /\ inv[i].pc # "idle" /\ inv[j].pc # "idle") => inv[i].n # inv[j].n

\* An invocation is rejected by the call budget while another one, admitted
\* before it, is still in flight
C1_Witness ==
    \E i, j \in Invs :
        /\ i # j
        /\ inv[i].pc \in {"classify", "decide", "exec"}
        /\ inv[j].outcome = "BudgetExceeded"
        /\ Cardinality({k \in Invs : PastCallCheck(k)}) = ctx.maxToolCalls

\* The invocation met no rejection other than, possibly, the call budget: the
\* tool is allowed and its execute resolved before the timer
NoOtherRejection(i) ==
    /\ inv[i].cls.st = "ok"
    /\ inv[i].dec.st = "ok"
    /\ inv[i].dec.decision.allow
    /\ inv[i].wt = "resolved"

\* C2: from a fresh context with maxToolCalls = N, the invocations whose
\* increment gave 1..N are not rejected by the call budget and succeed when
\* nothing else rejects them; the one whose increment gave more than N fails
\* with budget_exceeded right after its attempted event, without running the
\* tool; the counter is never rolled back: it counts every invocation made.
C2_BudgetRatchet ==
    /\ ctx.toolCalls = Cardinality({i \in Invs : inv[i].pc # "idle"})
    /\ \A i \in Invs : inv[i].pc # "idle" =>
         /\ inv[i].n <= ctx.toolCalls
         /\ inv[i].n <= ctx.maxToolCalls =>
              /\ inv[i].outcome # "BudgetExceeded"
              /\ (inv[i].pc = "done" /\ NoOtherRejection(i)) =>
                   /\ inv[i].outcome = "returned"
                   /\ Count(i, "tool_call_executed") = 1
         /\ inv[i].n > ctx.maxToolCalls =>
              /\ inv[i].pc = "done"
              /\ inv[i].outcome = "BudgetExceeded"
              /\ TypesOf(i) = <<"tool_call_attempted", "budget_exceeded">>
              /\ ~Started(i)

\* N invocations have succeeded, the (N+1)-th was rejected, toolCalls is N+1
C2_Witness ==
    LET N == ctx.maxToolCalls IN
    /\ N + 1 \in Invs
    /\ \A i \in 1..N : inv[i].outcome = "returned"
    /\ inv[N + 1].outcome = "BudgetExceeded"
    /\ ctx.toolCalls = N + 1

\* The policy decided Deny for the invocation
Denied(i) == inv[i].dec.st = "ok" /\ ~inv[i].dec.decision.allow

\* C3: when the decision is Deny the underlying execute is never called, the
\* invocation fails, exactly one tool_call_blocked event with the decision's
\* reason is emitted for it and no tool_call_executed event.
C3_DenyBlocks ==
    \A i \in Invs : Denied(i) =>
        /\ ~Started(i)
        /\ Count(i, "tool_call_executed") = 0
        /\ inv[i].pc \in {"decide", "done"}
        /\ inv[i].pc = "done" =>
             /\ inv[i].outcome = "Blocked"
             /\ Count(i, "tool_call_blocked") = 1
             /\ \A k \in 1..Len(log) :
                  (log[k].inv = i /\ log[k].type = "tool_call_blocked")
                      => log[k].reason = inv[i].dec.decision.reason

\* A denylisted tool was invoked and blocked
C3_Witness ==
    \E i \in Invs :
        /\ Denied(i)
        /\ inv[i].toolName = delete_resource
        /\ inv[i].outcome = "Blocked"
        /\ Count(i, "tool_call_blocked") = 1

\* C4: the simple policy's decide returns Deny for every name in the denylist,
\* whatever the risk tier, the approval tiers and the allowlist.
C4_DenylistWins ==
    (/\ pq.op = "decide"
     /\ opts.policy.denylist.defined
     /\ pq.toolName \in opts.policy.denylist.items)
        => ~pq.decision.allow /\ ~pq.decision.needsApproval

\* decide was called for a name that is in both lists, with a tier that asks approval
C4_Witness ==
    /\ pq.op = "decide"
    /\ pq.toolName \in opts.policy.denylist.items
    /\ opts.policy.allowlist.defined
    /\ pq.toolName \in opts.policy.allowlist.items
    /\ pq.risk \in approvalRisks(opts.policy)
    /\ ~pq.decision.allow

C6_EmptyAllowlistRestrictsNothing ==
    (/\ pq.op = "decide"
     /\ (~opts.policy.allowlist.defined \/ opts.policy.allowlist.items = {})
     /\ ~(opts.policy.denylist.defined /\ pq.toolName \in opts.policy.denylist.items))
        => pq.decision.allow

\* C7: a failure of the audit sink's emit never aborts the invocation and never
\* reaches the caller of the wrapped execute: no invocation settles with the
\* sink's error.
C7_SinkFailureIsolated ==
    \A i \in Invs : inv[i].pc = "done" => inv[i].outcome # "SinkError"

\* classify or decide raised an error for the invocation
PolicyRaised(i) == inv[i].cls.st = "threw" \/ inv[i].dec.st = "threw"

\* C8: when classify or decide raises an error in the wrapped execute, the
\* underlying execute is never called and the invocation fails.
C8_PolicyErrorFailsClosed ==
    \A i \in Invs : PolicyRaised(i) =>
        /\ ~Started(i)
        /\ Count(i, "tool_call_executed") = 0
        /\ inv[i].pc \in {"classify", "decide", "done"}
        /\ inv[i].pc = "done" => inv[i].outcome = "PolicyError"

\* decide raised for a tool that the policy would have allowed, and the
\* invocation has failed
C8_Witness ==
    \E i \in Invs :
        /\ inv[i].dec.st = "threw"
        /\ inv[i].toolName = search_docs
        /\ inv[i].pc = "done"
        /\ inv[i].outcome = "PolicyError"

\* C9: the synthesized approval predicate returns true exactly when the
\* decision carries needsApproval, and true whenever classify or decide raises.
C9_ProbeFailsClosed ==
    probe.called =>
        /\ probe.threw => probe.result = TRUE
        /\ ~probe.threw => (probe.result <=> probe.decision.needsApproval)
        /\ (~probe.threw /\ probe.result) =>
             /\ probe.decision.allow
             /\ classify(probe.toolName).risk \in approvalRisks(opts.policy)

\* The probe ran for a read-tier tool that needs no approval, the policy
\* raised, and the probe answered true
C9_Witness ==
    /\ probe.called
    /\ probe.threw
    /\ probe.toolName = search_docs
    /\ "read" \notin approvalRisks(opts.policy)
    /\ probe.result = TRUE

\* C10: when the timer elapses before the underlying execute has settled, the
\* invocation fails with the timeout error, its last event is
\* tool_call_timeout and it never gets a tool_call_executed event, also when
\* the abandoned execution completes afterwards.
C10_TimeoutEndsInTimeout ==
    \A i \in Invs : inv[i].wt = "timeout" =>
        /\ Count(i, "tool_call_executed") = 0
        /\ inv[i].pc \in {"exec", "done"}
        /\ inv[i].pc = "done" =>
             /\ inv[i].outcome = "Timeout"
             /\ Len(TypesOf(i)) > 0
             /\ TypesOf(i)[Len(TypesOf(i))] = "tool_call_timeout"
             /\ Count(i, "tool_call_timeout") = 1

\* The timer won the race, the invocation failed, and the abandoned execution
\* resolved afterwards
C10_Witness ==
    \E i \in Invs :
        /\ inv[i].wt = "timeout"
        /\ inv[i].pc = "done"
        /\ inv[i].under = "resolved"
        /\ inv[i].outcome = "Timeout"

\* C11: a tool_call_timeout event is emitted for an invocation only if the
\* per-call timer elapsed before the underlying execute settled; an execute
\* that rejects on its own before the timer never produces the event.
C11_TimeoutEventOnlyWhenTimerElapsed ==
    \A i \in Invs : Count(i, "tool_call_timeout") > 0 => inv[i].wt = "timeout"

\* C12: when the underlying execute rejects before the timer elapses, the
\* wrapped execute fails with that same rejection value, whatever the value.
C12_ToolErrorPropagatesUnchanged ==
    \A i \in Invs :
        (inv[i].pc = "done" /\ inv[i].wt = "rejected") => inv[i].outcome = inv[i].res

\* The underlying execute of the invocation resolved before the timer elapsed
Succeeded(i) == inv[i].wt = "resolved"

\* C13: redaction touches only what goes to the audit sink: the underlying
\* execute is called with the original input, and when it succeeds the caller
\* receives exactly the value it produced, whatever redactor is configured.
C13_RedactionOnlyOnAuditPath ==
    \A i \in Invs :
        /\ Started(i) => inv[i].arg = inv[i].input
        /\ (inv[i].pc = "done" /\ Succeeded(i)) =>
             /\ inv[i].outcome = "returned"
             /\ inv[i].ret = inv[i].res

\* The string occurs in the value, at any depth
RECURSIVE holds(_, _)
holds(value, s) ==
    CASE value.t = "string" -> value.v = s
      [] value.t = "array" -> \E k \in 1..Len(value.v) : holds(value.v[k], s)
      [] value.t = "object" -> \E k \in 1..Len(value.v) : holds(value.v[k].val, s)
      [] OTHER -> FALSE

\* C14: with a redactor configured, the input recorded in every
\* tool_call_attempted event is the redactor's output for the invocation's
\* input, and the unredacted input does not reach the sink: no event carries
\* the secret held by the redacted field.
C14_AttemptedCarriesRedactedInput ==
    opts.redactor.defined =>
        \A k \in 1..Len(log) :
            /\ "input" \in DOMAIN log[k] <=> log[k].type = "tool_call_attempted"
            /\ log[k].type = "tool_call_attempted" =>
                 /\ log[k].input = fieldRedact(opts.redactor.items, inv[log[k].inv].input)
                 /\ ~holds(log[k].input, "hunter2")

\* An input with a secret under a redacted key, nested in an array, was
\* passed to a tool that ran with it, and the event holds the token instead
C14_Witness ==
    \E i \in Invs :
        /\ opts.redactor.defined
        /\ inv[i].outcome = "returned"
        /\ inv[i].input = NestedSecretInput
        /\ holds(inv[i].arg, "hunter2")
        /\ EventsOf(i)[1].input # inv[i].input
        /\ holds(EventsOf(i)[1].input, "[REDACTED]")

\* The events that end an invocation's sequence
TerminalTypes == {"budget_exceeded", "tool_call_blocked", "tool_call_executed",
                  "tool_call_timeout"}

\* C15: the events of a settled invocation form one of: attempted,
\* budget_exceeded; attempted, blocked; attempted, optional needs_approval,
\* then executed or timeout.  attempted is always first, and at most one of
\* budget_exceeded, blocked, executed, timeout occurs, always last.
C15_EventSequenceForms ==
    \A i \in Invs :
        LET types == TypesOf(i)
            terminals == {k \in 1..Len(types) : types[k] \in TerminalTypes}
        IN /\ inv[i].pc = "done" =>
                types \in {<<"tool_call_attempted", "budget_exceeded">>,
                           <<"tool_call_attempted", "tool_call_blocked">>,
                           <<"tool_call_attempted", "tool_call_executed">>,
                           <<"tool_call_attempted", "tool_call_timeout">>,
                           <<"tool_call_attempted", "tool_call_needs_approval", "tool_call_executed">>,
                           <<"tool_call_attempted", "tool_call_needs_approval", "tool_call_timeout">>}
           /\ Len(types) > 0 => types[1] = "tool_call_attempted"
           /\ Cardinality(terminals) <= 1
           /\ \A k \in terminals : k = Len(types)

\* The policy denies the tool
DeniedTool(t) == ~decide(opts.policy, t, classify(t).risk).allow

\* The invocation failed on a budget check
BudgetOutcomes == {"BudgetExceeded", "TimeBudgetExceeded"}
OverBudget(i) == inv[i].outcome \in BudgetOutcomes

C17_PolicyBeforeBudget ==
    \A i \in Invs : OverBudget(i) =>
        /\ inv[i].cls.st = "ok"
        /\ inv[i].dec.st = "ok"
        /\ inv[i].dec.decision.allow

\* C18: with a duration limit set on the context, an invocation made when
\* more than maxDurationMs have elapsed since startTime fails at once with a
\* budget_exceeded event, without calling the tool, also when the call count
\* is within its limit.
C18_DurationBudgetRejects ==
    [][\A i \in Invs :
         (/\ inv[i].pc = "idle"
          /\ inv'[i].pc # "idle"
          /\ ctx.maxDurationMs # 0
          /\ now - ctx.startTime > ctx.maxDurationMs) =>
            /\ inv'[i].pc = "done"
            /\ inv'[i].outcome \in BudgetOutcomes
            /\ inv'[i].under = "notcalled"
            /\ Len(log') = Len(log) + 2
            /\ log'[Len(log')].type = "budget_exceeded"
            /\ log'[Len(log')].inv = i
            /\ (ctx'.toolCalls <= ctx.maxToolCalls
                    => inv'[i].outcome = "TimeBudgetExceeded")]_vars

\* The first invocation of a fresh context, made after the duration limit,
\* was rejected although the call count was within its limit
C18_Witness ==
    \E i \in Invs :
        /\ inv[i].outcome = "TimeBudgetExceeded"
        /\ inv[i].n <= ctx.maxToolCalls
        /\ ~Started(i)
        /\ TypesOf(i) = <<"tool_call_attempted", "budget_exceeded">>

\* C19: budget exhaustion is permanent for a context whose limits are not
\* changed: once an invocation has failed on a budget check, every invocation
\* made later fails on a budget check too and never calls the tool.
C19_ExhaustionIsPermanent ==
    \A i, j \in Invs :
        (i < j /\ OverBudget(i) /\ inv[j].pc # "idle") =>
            /\ inv[j].pc = "done"
            /\ OverBudget(j)
            /\ ~Started(j)
            /\ TypesOf(j) = <<"tool_call_attempted", "budget_exceeded">>

\* The call budget was used up by earlier invocations; two later invocations
\* were both rejected
C19_Witness ==
    /\ ctx.maxToolCalls < DefaultMaxToolCalls
    /\ 2 \in Invs
    /\ inv[1].outcome = "BudgetExceeded"
    /\ inv[2].outcome = "BudgetExceeded"
    /\ inv[2].n > inv[1].n

\* The calls the context had left when invocation 1 was made
CallsLeftAtStart == ctx.maxToolCalls - (inv[1].n - 1)

\* C20: the call budget is shared by all tools wrapped in one guardTools call:
\* on a context with one call left (maxToolCalls = 1 on a fresh one), of two
\* invocations of two different allowed tools the first is not rejected by the
\* call budget and gets tool_call_executed and success when nothing else
\* fails it, the second fails with budget_exceeded; the same for the default
\* context.
C20_BudgetSharedAcrossTools ==
    \A i, j \in Invs :
        (/\ CallsLeftAtStart = 1
         /\ i = 1
         /\ i < j
         /\ inv[j].pc # "idle"
         /\ inv[i].toolName # inv[j].toolName
         /\ ~DeniedTool(inv[i].toolName)
         /\ ~DeniedTool(inv[j].toolName)) =>
            /\ inv[i].outcome # "BudgetExceeded"
            /\ (inv[i].pc = "done" /\ NoOtherRejection(i)) =>
                 /\ inv[i].outcome = "returned"
                 /\ Count(i, "tool_call_executed") = 1
            /\ inv[j].outcome = "BudgetExceeded"
            /\ ~Started(j)
            /\ TypesOf(j) = <<"tool_call_attempted", "budget_exceeded">>

\* On a fresh context with maxToolCalls = 1, search_docs was invoked and
\* returned, then create_issue was invoked and rejected by the budget
C20_Witness ==
    /\ 2 \in Invs
    /\ ctx.maxToolCalls = 1
    /\ ctx.toolCalls = 2
    /\ inv[1].toolName = search_docs
    /\ inv[2].toolName = create_issue
    /\ inv[1].outcome = "returned"
    /\ inv[2].outcome = "BudgetExceeded"
    /\ TypesOf(1) = <<"tool_call_attempted", "tool_call_executed">>
    /\ \E k \in 1..(Len(log) - 1) :
         /\ log[k].inv = 1 /\ log[k].type = "tool_call_executed"
         /\ log[k + 1].inv = 2 /\ log[k + 1].type = "tool_call_attempted"

\* C21: every invocation of a wrapped execute increments toolCalls by exactly
\* one, whatever its outcome, and no step of the pipeline decrements it: each
\* step changes toolCalls by the number of invocations made in that step.
C21_EveryInvocationCountsOnce ==
    [][ctx'.toolCalls = ctx.toolCalls
            + Cardinality({i \in Invs : inv[i].pc = "idle" /\ inv'[i].pc # "idle"})]_vars

\* C22: when the decision is AllowNeedsApproval, the step of the wrapped
\* execute that calls the underlying tool first emits
\* tool_call_needs_approval for the invocation, with the decision's reason,
\* and calls the tool in that same step, waiting for no approval.
C22_ApprovalNoticeThenExecute ==
    [][\A i \in Invs :
         /\ (inv[i].pc = "decide" /\ inv[i].dec.st = "ok"
                /\ inv[i].dec.decision.needsApproval /\ inv'[i] # inv[i]) =>
              /\ inv'[i].under = "running"
              /\ inv'[i].pc = "exec"
              /\ log' = Append(log, NeedsApproval(i, inv[i].toolName,
                                                  inv[i].dec.decision.reason))
         /\ (inv[i].under = "notcalled" /\ inv'[i].under = "running"
                /\ ~inv[i].dec.decision.needsApproval) => log' = log]_vars

\* A write-tier tool that needs approval was invoked and ran to completion:
\* attempted, needs_approval, executed
C22_Witness ==
    \E i \in Invs :
        /\ inv[i].toolName = create_issue
        /\ inv[i].dec.decision.needsApproval
        /\ inv[i].outcome = "returned"
        /\ TypesOf(i) = <<"tool_call_attempted", "tool_call_needs_approval",
                          "tool_call_executed">>

\* C23: for the simple policy, a name that passes the denylist and allowlist
\* rules gets AllowNeedsApproval exactly when its risk tier is in
\* requireApprovalForRisk (write and admin when the option is absent) and plain
\* Allow otherwise; every Deny and AllowNeedsApproval carries a non-empty reason.
C23_ApprovalByRiskTier ==
    pq.op = "decide" =>
        LET p == opts.policy
            passes == /\ ~(p.denylist.defined /\ pq.toolName \in p.denylist.items)
                      /\ ~(p.allowlist.defined /\ pq.toolName \notin p.allowlist.items)
            tiers == IF p.requireApprovalForRisk.defined
                     THEN p.requireApprovalForRisk.items
                     ELSE {"write", "admin"}
        IN /\ passes =>
                /\ pq.decision.allow
                /\ pq.decision.needsApproval <=> pq.risk \in tiers
           /\ (~pq.decision.allow \/ pq.decision.needsApproval) =>
                Len(pq.decision.reason) > 0
           /\ (pq.decision.allow /\ ~pq.decision.needsApproval) =>
                pq.decision = Allow

\* With no requireApprovalForRisk option, decide asked approval for a
\* write-tier call of a name that is in the allowlist
C23_Witness ==
    /\ pq.op = "decide"
    /\ ~opts.policy.requireApprovalForRisk.defined
    /\ opts.policy.allowlist.defined
    /\ pq.toolName \in opts.policy.allowlist.items
    /\ pq.risk = "write"
    /\ pq.decision.allow
    /\ pq.decision.needsApproval

\* C24: every invocation of a wrapped execute eventually settles: one that
\* waits for the policy goes on, and one whose timer falls within the clock's
\* range settles, by the timeout when its underlying execute never completes.
C24_EveryInvocationSettles ==
    /\ \A i \in Invs :
         (inv[i].pc \in {"classify", "decide"}) ~> (inv[i].pc \in {"exec", "done"})
    /\ \A i \in Invs :
         (inv[i].pc = "exec" /\ inv[i].t0 + opts.timeoutMs <= MaxTime)
             ~> (inv[i].pc = "done")
    /\ [](\A i \in Invs :
            (inv[i].pc = "done" /\ inv[i].under = "running")
                => inv[i].outcome = "Timeout")

\* The invocation has failed with the timeout while its underlying execute
\* is still running
C24_Witness ==
    \E i \in Invs :
        /\ inv[i].pc = "done"
        /\ inv[i].under = "running"
        /\ inv[i].outcome = "Timeout"
        /\ now >= inv[i].t0 + opts.timeoutMs

\* C25: guardTools returns a new toolset and leaves the original untouched:
\* the toolset it was given is unchanged, the wrapped toolset has exactly the
\* same tool names, each wrapped tool keeps the original's description and
\* input shape, a tool with an execute gets a new one, and a tool with no
\* execute stays without one.
C25_WrappedKeepsShape ==
    toolset.made =>
        /\ toolset.tools = toolset.given
        /\ DOMAIN toolset.wrapped = DOMAIN toolset.given
        /\ \A n \in DOMAIN toolset.given :
             LET tool == toolset.given[n]
                 w == toolset.wrapped[n]
             IN /\ \A k \in {"description", "inputSchema", "parameters"} :
                     /\ k \in DOMAIN w <=> k \in DOMAIN tool
                     /\ k \in DOMAIN tool => w[k] = tool[k]
                /\ "execute" \in DOMAIN tool =>
                     /\ w["execute"].t = "function"
                     /\ w["execute"] # tool["execute"]
                /\ "execute" \notin DOMAIN tool => w["execute"] = Undefined

\* A toolset of two tools was wrapped: one with a description and an execute,
\* one with an input shape and no execute
C25_Witness ==
    /\ toolset.made
    /\ DOMAIN toolset.given = WrapNames
    /\ DOMAIN toolset.given[search_docs] = {"description", "execute"}
    /\ DOMAIN toolset.given[delete_resource] = {"inputSchema", "parameters"}
    /\ toolset.wrapped[search_docs]["execute"] = FunctionValue("guarded execute")
    /\ toolset.wrapped[delete_resource]["execute"] = Undefined

\* The events emitted since the last clear() among the calls made, in order
RECURSIVE SinceLastClear(_)
SinceLastClear(calls) ==
    IF calls = <<>> THEN <<>>
    ELSE LET last == calls[Len(calls)]
         IN IF last.op = "clear" THEN <<>>
            ELSE Append(SinceLastClear(SubSeq(calls, 1, Len(calls) - 1)), last.event)

\* s is t with the events of other requests left out: the same events of
\* request id, as many, in the same order
RECURSIVE IsSubsequenceFor(_, _, _)
IsSubsequenceFor(s, t, id) ==
    IF t = <<>> THEN s = <<>>
    ELSE IF t[1].requestId = id
    THEN s # <<>> /\ s[1] = t[1] /\ IsSubsequenceFor(Tail(s), Tail(t), id)
    ELSE IsSubsequenceFor(s, Tail(t), id)

\* C27: after any sequence of emit and clear calls on an InMemoryAuditSink,
\* getEvents returns exactly the events emitted since the last clear, in
\* emission order, and getEventsForRequest(id) returns the subsequence of
\* those events that carry that request id.
C27_MemorySinkKeepsEvents ==
    /\ mem.made /\ mem.answer.op = "getEvents" =>
         mem.answer.val = SinceLastClear(mem.calls)
    /\ mem.made /\ mem.answer.op = "getEventsForRequest" =>
         IsSubsequenceFor(mem.answer.val, SinceLastClear(mem.calls), mem.answer.id)

\* An event was emitted and cleared, two more of different requests were
\* emitted, and getEventsForRequest answered with the one of its request
C27_Witness ==
    /\ mem.made
    /\ Len(mem.calls) = 3
    /\ mem.calls[1].op = "emit"
    /\ mem.calls[2].op = "clear"
    /\ mem.calls[3].op = "emit"
    /\ mem.answer.op = "getEventsForRequest"
    /\ mem.answer.id = mem.calls[3].event.requestId
    /\ Len(mem.answer.val) = 1

\* The lines of a text: the token sequences that end with a line feed
RECURSIVE LinesOf(_, _)
LinesOf(text, line) ==
    IF text = <<>> THEN (IF line = <<>> THEN <<>> ELSE <<line>>)
    ELSE IF text[1] = "\n" THEN <<line>> \o LinesOf(Tail(text), <<>>)
    ELSE LinesOf(Tail(text), Append(line, text[1]))

\* C26: every event emitted to a FileAuditSink before close() is written to
\* the file as exactly one JSON line, in emission order, including the events
\* emitted right after the sink is constructed.
C26_FileSinkWritesEveryEvent ==
    file.made /\ file.late = <<>> =>
        LET lines == LinesOf(file.content, <<>>)
        IN /\ Len(lines) = Len(file.emitted)
           /\ \A k \in 1..Len(lines) : lines[k] = stringify(file.emitted[k])

\* C28: every approval decision is recorded in the audit trail: once the
\* human has approved or denied a call that needs approval, the audit trail
\* holds a record about that tool made at or after the decision; a denied
\* call is not executed.
C28_ApprovalDecisionsAudited ==
    page.made =>
        \A p \in Parts :
            page.parts[p].decision # "none" =>
                /\ \E k \in 1..Len(log) :
                     /\ "toolName" \in DOMAIN log[k]
                     /\ log[k].toolName = page.parts[p].toolName
                /\ page.parts[p].decision = "denied" => ~page.parts[p].output.success

\* The key names one of the fields when letter case is ignored
matchesField(key, fields) == \E f \in fields : toLowerCase(f) = toLowerCase(key)

\* out is value with the value at every matching key replaced by the token,
\* whatever that value was, and everything else as it was
RECURSIVE FieldsReplaced(_, _, _)
FieldsReplaced(fields, value, out) ==
    CASE value.t = "array" ->
           /\ out.t = "array"
           /\ Len(out.v) = Len(value.v)
           /\ \A k \in 1..Len(value.v) : FieldsReplaced(fields, value.v[k], out.v[k])
      [] value.t = "object" ->
           /\ out.t = "object"
           /\ Len(out.v) = Len(value.v)
           /\ \A k \in 1..Len(value.v) :
                /\ out.v[k].key = value.v[k].key
                /\ IF matchesField(value.v[k].key, fields)
                   THEN out.v[k].val = StringValue("[REDACTED]")
                   ELSE FieldsReplaced(fields, value.v[k].val, out.v[k].val)
      [] OTHER -> out = value

\* C29: createFieldRedactor replaces the value at every key whose name matches
\* a configured field name case-insensitively, at every nesting depth of
\* mappings and sequences, with the replacement token without recursing into
\* it, and leaves every other key and value unchanged, preserving key names
\* and sequence order.
C29_FieldRedactorReplacesMatchingKeys ==
    rq.op = "field" /\ rq.done => FieldsReplaced(rq.fields, rq.value, rq.out)

\* A mapping nested in a sequence was redacted: the field list names
\* Password, the key is password, and the sibling key and the second item of
\* the sequence are as they were
C29_Witness ==
    /\ rq.op = "field" /\ rq.done
    /\ rq.fields = {key_Password, key_user}
    /\ rq.value = ArrayValue(<<ObjectValue(<<Entry(key_password, StringValue("hunter2")),
                                             Entry(key_query, StringValue("hunter2"))>>),
                               NullValue>>)
    /\ rq.out = ArrayValue(<<ObjectValue(<<Entry(key_password, StringValue("[REDACTED]")),
                                           Entry(key_query, StringValue("hunter2"))>>),
                             NullValue>>)

\* Some text that starts at from is in the language of atoms[k..], whatever
\* way the repetitions share the characters
RECURSIVE inLanguage(_, _, _, _)
inLanguage(atoms, k, s, from) ==
    IF k > Len(atoms) THEN TRUE
    ELSE IF atoms[k].kind = "b"
    THEN atWordBoundary(s, from) /\ inLanguage(atoms, k + 1, s, from)
    ELSE \E n \in atoms[k].min..runLength(s, from, atoms[k].cls, atoms[k].max) :
            inLanguage(atoms, k + 1, s, from + n)

\* The text has an instance of the pattern
hasInstance(pattern, s) ==
    \E a \in 1..Len(pattern) : \E from \in 1..Len(s) :
        inLanguage(pattern[a], 1, s, from)

\* The strings held by a value, at any depth
RECURSIVE stringsOf(_)
stringsOf(value) ==
    CASE value.t = "string" -> {value.v}
      [] value.t = "array" -> UNION {stringsOf(value.v[k]) : k \in 1..Len(value.v)}
      [] value.t = "object" -> UNION {stringsOf(value.v[k].val) : k \in 1..Len(value.v)}
      [] OTHER -> {}

SecretIndexes == 1..Len(DEFAULT_SECRET_PATTERNS)

\* C30: applying the default redactor to a string, or to a nested structure
\* of strings, that contains a recognized secret pattern yields a value with
\* no instance of that pattern and with the replacement token present, and
\* applying the default redactor a second time changes nothing:
\* redact(redact(v)) = redact(v).
C30_DefaultRedactorRemovesSecrets ==
    /\ rq.op = "default" /\ rq.pass >= 1 =>
         \A p \in SecretIndexes :
             (\E s \in stringsOf(rq.value) : hasInstance(DEFAULT_SECRET_PATTERNS[p], s)) =>
                 /\ \A s \in stringsOf(rq.out) : ~hasInstance(DEFAULT_SECRET_PATTERNS[p], s)
                 /\ \E s \in stringsOf(rq.out) : includes(s, ReplacementChars)
    /\ rq.op = "default" /\ rq.pass = 2 => rq.again = rq.out

\* A text with two secrets, an access key and a private-key header, nested in
\* a sequence in a mapping, was redacted twice
C30_Witness ==
    /\ rq.op = "default" /\ rq.pass = 2
    /\ rq.value.t = "object"
    /\ \E s \in stringsOf(rq.value) :
         /\ hasInstance(DEFAULT_SECRET_PATTERNS[7], s)
         /\ hasInstance(DEFAULT_SECRET_PATTERNS[8], s)
    /\ rq.out = ObjectValue(<<Entry(key_query,
                    ArrayValue(<<StringValue(ReplacementChars \o ReplacementChars),
                                 StringValue(<<"d","o","c","s">>)>>))>>)

\* C37: when the underlying execute rejects on its own before the timer
\* elapses, the invocation gets no terminal event: its events are
\* tool_call_attempted, optionally tool_call_needs_approval, and nothing else.
C37_ToolFailureEmitsNoTerminalEvent ==
    \A i \in Invs : inv[i].wt = "rejected" =>
        /\ TypesOf(i) \in {<<"tool_call_attempted">>,
                           <<"tool_call_attempted", "tool_call_needs_approval">>}
        /\ \A k \in 1..Len(log) : log[k].inv = i => log[k].type \notin TerminalTypes

C36_ProbeFalseForDeniedTool ==
    /\ (probe.called /\ ~probe.threw /\ DeniedTool(probe.toolName)) =>
          /\ ~probe.decision.allow
          /\ probe.result = FALSE
    /\ \A i \in Invs :
          (inv[i].pc = "done" /\ Denied(i)) =>
             /\ inv[i].outcome = "Blocked"
             /\ inv[i].under = "notcalled"
             /\ TypesOf(i) = <<"tool_call_attempted", "tool_call_blocked">>

\* The probe answered false for the denylisted tool, and the invocation of
\* that tool was blocked by the wrapped execute
C36_Witness ==
    /\ probe.called
    /\ ~probe.threw
    /\ probe.toolName = delete_resource
    /\ probe.result = FALSE
    /\ \E i \in Invs :
         /\ inv[i].toolName = delete_resource
         /\ inv[i].outcome = "Blocked"

\* C35: the synthesized approval probe changes no guard state and emits
\* nothing: a step that is not a step of an invocation of the wrapped execute
\* (a call of the probe, whatever it answers, or the passage of time) leaves
\* the context, toolCalls included, and the audit log as they were.
C35_ProbeHasNoEffect ==
    [][inv' = inv => (ctx' = ctx /\ log' = log)]_vars

\* The probe answered that create_issue needs approval while no call had been
\* counted and no event emitted
C35_Witness ==
    /\ probe.called
    /\ probe.toolName = create_issue
    /\ probe.result = TRUE
    /\ ~probe.threw
    /\ ctx.toolCalls = 0
    /\ log = <<>>

\* C34: when the host tool declares needsApproval, a boolean (false included)
\* or a predicate, the wrapped tool carries that very value: it is not the
\* synthesized probe, the only needsApproval that consults the policy, also
\* for a tool that the policy puts in a tier that requires approval.
C34_DeclaredApprovalKept ==
    toolset.made =>
        \A n \in DOMAIN toolset.given :
            LET declared == Get(toolset.given[n], "needsApproval")
            IN declared # Undefined =>
                 /\ toolset.wrapped[n]["needsApproval"] = declared
                 /\ toolset.wrapped[n]["needsApproval"] # FunctionValue("synthesized needsApproval")

\* delete_resource, an admin tool under a policy that requires approval for
\* admin, declared needsApproval: false and was wrapped with false; search_docs
\* declared a predicate of its own and kept it
C34_Witness ==
    /\ toolset.made
    /\ DOMAIN toolset.given = WrapNames
    /\ classify(delete_resource).risk \in approvalRisks(opts.policy)
    /\ Get(toolset.given[delete_resource], "needsApproval") = BooleanValue(FALSE)
    /\ toolset.wrapped[delete_resource]["needsApproval"] = BooleanValue(FALSE)
    /\ toolset.wrapped[search_docs]["needsApproval"] = FunctionValue("needsApproval of the host tool")

\* The two characters are the same letter, whatever their case
sameLetter(a, b) ==
    \/ a = b
    \/ \E u \in 1..26 : {a, b} = {UpperChars[u], LowerChars[u]}

\* The name contains one of the tokens, whatever the case of its letters
hasToken(name, tokens) ==
    \E tok \in tokens : \E k \in 0..(Len(name) - Len(tok)) :
        \A j \in 1..Len(tok) : sameLetter(name[k + j], tok[j])

\* C32: classify depends only on the tool name, case-insensitively: a name
\* containing delete, remove, destroy or drop is admin; otherwise a name
\* containing create, write, update, modify, insert, send or post is write;
\* otherwise read.  A name with both an admin and a write token is admin.
C32_ClassifyByNameTokens ==
    pq.op = "classify" =>
        /\ pq.result.risk =
              (IF hasToken(pq.toolName, AdminTokens) THEN "admin"
               ELSE IF hasToken(pq.toolName, WriteTokens) THEN "write"
               ELSE "read")
        /\ (hasToken(pq.toolName, AdminTokens) /\ hasToken(pq.toolName, WriteTokens))
              => pq.result.risk = "admin"

\* UPDATEremove, a write token in upper case before an admin token, was
\* classified admin on an input that holds a secret
C32_Witness ==
    /\ pq.op = "classify"
    /\ pq.toolName = <<"U","P","D","A","T","E","r","e","m","o","v","e">>
    /\ pq.input = SecretInput
    /\ pq.result.risk = "admin"

\* C40: close() called before the asynchronous open of the write stream has
\* completed does nothing; the stream is opened afterwards all the same, every
\* event emitted after that close() is written to the file, and the stream is
\* ended only by a close() called when it is open.
C40_EarlyCloseDoesNothing ==
    [][file.made =>
         /\ (file.writeStream = "undefined" /\ ~file.closed /\ file'.closed) =>
               /\ file'.writeStream = "undefined"
               /\ file'.import = file.import
               /\ file'.content = file.content
         /\ (file.closed /\ file.import = "pending" /\ file'.import = "resolved") =>
               file'.writeStream = "open"
         /\ (file.closed /\ file.writeStream # "ended"
                /\ Len(file'.late) > Len(file.late)) =>
               file'.content = file.content
                                 \o stringify(file'.late[Len(file'.late)]) \o <<"\n">>
         /\ (file.writeStream # "ended" /\ file'.writeStream = "ended") =>
               /\ file.writeStream = "open"
               /\ file'.emitted = file.emitted
               /\ file'.late = file.late
               /\ file'.content = file.content
    ]_vars

\* The regex redactors of a list of redactors, composites opened up, in order
RECURSIVE flattened(_)
flattened(redactors) ==
    IF redactors = <<>> THEN <<>>
    ELSE (IF redactors[1].kind = "compose"
          THEN flattened(redactors[1].redactors)
          ELSE <<redactors[1]>>) \o flattened(Tail(redactors))

\* rn(...r2(r1(v))) for regex redactors r1, ..., rn
RECURSIVE nestedApplication(_, _)
nestedApplication(rs, v) ==
    IF rs = <<>> THEN v
    ELSE regexRedact(rs[Len(rs)].patterns,
                     nestedApplication(SubSeq(rs, 1, Len(rs) - 1), v))

\* C31: the composite of r1, ..., rn applied to v gives rn(...r2(r1(v))): each
\* redactor gets the previous one's output, in list order; nesting composites
\* gives what the flat list gives; the composite of no redactors returns the
\* value unchanged.
C31_ComposeAppliesInOrder ==
    (rq.op = "compose" /\ rq.done) =>
        /\ rq.out = nestedApplication(flattened(rq.redactors), rq.value)
        /\ flattened(rq.redactors) = <<>> => rq.out = rq.value

\* A composite of [/x/g] followed by [/R/g] was applied to "x": the R of the
\* first redactor's replacement was replaced by the second redactor, which
\* the other order would not have done
C31_Witness ==
    /\ rq.op = "compose"
    /\ rq.done
    /\ rq.value = StringValue(<<"x">>)
    /\ Len(rq.redactors) = 2
    /\ rq.redactors[1].kind = "compose"
    /\ rq.redactors[2].kind = "regex"
    /\ Len(flattened(rq.redactors)) = 2
    /\ rq.out = StringValue(<<"[", "[","R","E","D","A","C","T","E","D","]",
                              "E","D","A","C","T","E","D","]">>)

\* C33: the built policy consults the classifiers in registration order and
\* returns the first non-null result, read when all return null; it consults
\* the rules in registration order and returns the first non-null decision,
\* Allow when all return null; the classifiers and rules after the first
\* definitive one are not called.
C33_FirstDefinitiveWins ==
    [][(pq.op = "builder" /\ pq'.op = "builder" /\ pq'.last # pq.last) =>
         LET q == pq'.last
             fns == IF q.kind = "classify" THEN pq.classifiers ELSE pq.rules
             default == IF q.kind = "classify" THEN [risk |-> "read"] ELSE Allow
             definitive == {k \in 1..Len(fns) : hasOpinion(fns[k], q.args)}
         IN /\ definitive = {} =>
                 /\ q.answer = default
                 /\ q.called = [k \in 1..Len(fns) |-> k]
            /\ \A m \in definitive :
                 (\A k \in definitive : m <= k) =>
                     /\ q.answer = fns[m].result
                     /\ q.called = [k \in 1..m |-> k]
    ]_vars

\* Two classifiers have an opinion on delete_resource: the first registered
\* (write) answered and the second (admin) was not called
C33_Witness ==
    /\ pq.op = "builder"
    /\ pq.last.kind = "classify"
    /\ pq.last.args.toolName = delete_resource
    /\ Len(pq.classifiers) = 2
    /\ pq.classifiers[2].result = [risk |-> "admin"]
    /\ pq.last.answer = [risk |-> "write"]
    /\ pq.last.called = <<1>>

====
